---- MODULE Spec2Model ----
(***************************************************************************)
(* A model of opencode-design-lab: the session completion monitor          *)
(* (pollForCompletion and the inline poll loop of invokeAgent), the design *)
(* isolation hook, and the orchestration of design generation.             *)
(*                                                                         *)
(* Each subsystem has its own variables, initial condition and next-state  *)
(* relation; a specification of one subsystem leaves the others' variables *)
(* at rest.                                                                *)
(***************************************************************************)
EXTENDS Integers, Sequences, FiniteSets, TLC

(***************************************************************************)
(* Bounds of the model.  Time is counted in poll intervals (one tick is    *)
(* POLL_INTERVAL_MS = 500 ms).                                             *)
(***************************************************************************)
\* The ceiling MAX_POLL_TIME_MS (1200 poll intervals in the source), scaled down.
MaxPollTicks == 6
\* The longest a status/messages query round trip takes, in ticks, beyond the sleep.
MaxLatency == 1
\* The largest message count a session reports.
MaxMsgs == 1
\* The settling time of invokeAgent (10000 ms = 20 poll intervals in the source), scaled down.
WarmupTicks == 1

(***************************************************************************)
(* Program constants.                                                      *)
(***************************************************************************)
STABILITY_REQUIRED == 3
\* invokeAgent sleeps 1000 ms per settling iteration: two poll intervals.
WarmupSleepTicks == 2

VARIABLES
    fn,            \* which awaiting function runs: "pollForCompletion" | "invokeAgent"
    pc,            \* "while" (loop head) | "sleep" (timer and queries pending) | "extract" | "done"
    elapsed,       \* Date.now() - pollStart, in ticks
    lastMsgCount,
    stablePolls,
    aborted,       \* abortSignal?.aborted
    outcome,       \* "none" | "complete" | "timeout" | "aborted" | "returned" | "error"
    exitBy,        \* how the poll loop was left: "none" | "stable" | "ceiling" | "abort" | "error"
    nPolls,        \* polls made so far (status queries issued)
    recent,        \* the last HistLen polls: [status, count, recorded]
    scripted,      \* TRUE when the session's answers follow script
    script,        \* the session's answers poll by poll, when scripted
    \* --- the design isolation hook ---
    isoEnabled,    \* hooks.design_isolation.enabled
    via,           \* "none" | "handler" (getHandler(id) called directly) | "plugin" (the registered hook)
    request,       \* the tool call: [tool, path, prog, hasSession]
    owner,         \* currentDesignId the handler was built with (<<>>: none)
    verdict,       \* what the handler did: "none" | "ok" | "violation"
    hookOutcome,   \* what the registered hook gave its caller: "none" | "returned" | "raised" | "unregistered"
    unhandled,     \* a rejected promise nobody awaits
    \* --- a run of design generation (and, for the orchestrator, review and scoring) ---
    impl,          \* "tool": createGenerateDesignsTool.execute | "orch": run_design_experiment over the orchestrator
    topicGiven,    \* args.topic was supplied (tool)
    dirExisted,    \* the run directory existed before the run
    qualEnabled,   \* config.review.qualitative.enabled
    quantEnabled,  \* config.review.quantitative.enabled
    gpc,           \* where the main flow stands
    cur,           \* index of the design (model) the sequential loop is at
    rcur,          \* index of the reviewer the inner loop is at
    tpc,           \* orchestrator: each generation task's position
    created,       \* sessions created
    inflight,      \* sessions between their prompt being sent and their completion being detected
    failed,        \* sessions whose invocation failed
    writes,        \* files written by this run, each with its number of writes
    results,       \* tool: the results list; orch: the DesignResult[] of generateDesignsInParallel
    kept,          \* orch: review and score results kept so far
    toolResult,    \* "none" | "error_exists" | "summary" | "json" | "thrown"
    reported,      \* the per-model results listed in what the tool returned
    ranking,       \* the rankings produced, each with the scores it was computed from
    \* --- score aggregation ---
    aggBy,         \* "none" | "orchestrator" (aggregateScores, calculateOverallScore) | "reviews" (aggregateQuantitativeScores)
    criteria,      \* the configured criteria: [name, min, weight]
    scoreResults,  \* per reviewer: [model, scores], each score [name, value, model, comment]
    aggOut,        \* what the aggregation returned
    \* --- ranking ---
    candidates,    \* the designs to rank, in input order, each with the values given to it
    ranked,        \* the ranking returned
    rankedBy,      \* "none" | "rankDesigns" | "aggregate_scores" | "rank_designs"
    \* --- the qualitative summary ---
    reviews,       \* the reviews of one candidate: [strengths, weaknesses, risk_assessment]
    summarized,    \* aggregateQualitativeReviews has returned
    qualitative,   \* what it returned
    \* --- JSON extraction from a response ---
    text,          \* the response text, a sequence of tokens
    extractedBy,   \* "none" | "extractJSON" | "invokeAgent"
    extraction,    \* what the extraction gave: [ok, value, preview]
    \* --- where a run persists its artifacts ---
    pimpl,         \* "none" | "tool" | "orch"
    models,        \* the requested model names, in order
    today,         \* the calendar day, counted from the day the run began
    ptask,         \* per model: "running" | "responded" | "written" | "failed"
    stamp,         \* per model: the day its directory name was taken from
    pfiles,        \* the artifact files: [path, by (the model whose artifact it holds), n (times written)]
    settled,       \* the models in the order their artifacts were written
    presults,      \* what generateDesignsInParallel returned
    ppc,           \* "gen" | "returned" | "thrown" | "resolved" | "saved"
    resultsPath    \* where run_design_experiment wrote results.json

awaitVars == <<fn, pc, elapsed, lastMsgCount, stablePolls, aborted,
               outcome, exitBy, nPolls, recent, scripted, script>>

guardVars == <<isoEnabled, via, request, owner, verdict, hookOutcome, unhandled>>

genVars == <<impl, topicGiven, dirExisted, qualEnabled, quantEnabled, gpc, cur, rcur,
             tpc, created, inflight, failed, writes, results, kept, toolResult, reported>>

rankVars == <<ranking>>

pureVars == <<aggBy, criteria, scoreResults, aggOut, candidates, ranked, rankedBy,
              reviews, summarized, qualitative>>

jsonVars == <<text, extractedBy, extraction>>

persistVars == <<pimpl, models, today, ptask, stamp, pfiles, settled, presults, ppc, resultsPath>>

extraVars == <<jsonVars, persistVars>>

vars == <<awaitVars, guardVars, genVars, rankVars, pureVars, extraVars>>

(***************************************************************************)
(* The completion monitor.                                                 *)
(***************************************************************************)
HistLen == STABILITY_REQUIRED + 1

\* What one poll can observe.  A session missing from the status map has
\* status "none"; a session that is running is "busy" and its messages are
\* not queried (count 0 stands for "not queried").
Statuses == {"busy", "idle", "none"}
Counts == 0..MaxMsgs
Observations ==
    {[status |-> "busy", count |-> 0]}
        \cup {[status |-> s, count |-> c] : s \in {"idle", "none"}, c \in Counts}

\* sessionStatus && sessionStatus.type !== "idle"
SessionRunning(status) == status # "none" /\ status # "idle"

CountStableNoZeroCheck(count, last) == count = last
\* currentMsgCount > 0 && currentMsgCount === lastMsgCount
CountStable(count, last) == count > 0 /\ count = last

ReachedStabilityOneEarly(n) == n >= STABILITY_REQUIRED - 1
\* stablePolls >= STABILITY_REQUIRED
ReachedStability(n) == n >= STABILITY_REQUIRED

\* Date.now() - pollStart < MAX_POLL_TIME_MS
WithinCeiling(e) == e < MaxPollTicks

AbortNeverObserved(sig) == FALSE
\* abortSignal?.aborted
AbortObserved(sig) == sig

\* The message of the error each failing outcome throws.
ErrorMessage(o) ==
    CASE o = "aborted" -> "Task aborted"
      [] o = "timeout" -> "Session timed out after 10 minutes"
      [] OTHER -> ""

Push(h, o) == IF Len(h) < HistLen THEN Append(h, o) ELSE Append(Tail(h), o)

\* The answers the session may give to the next poll.
NextAnswers == IF scripted
               THEN (IF nPolls < Len(script) THEN {script[nPolls + 1]} ELSE {})
               ELSE Observations

AwaitFrame == UNCHANGED <<guardVars, genVars, rankVars, pureVars, extraVars>>

AwaitInit(f) ==
    /\ fn = f
    /\ pc = "while"
    /\ elapsed = 0
    /\ lastMsgCount = 0
    /\ stablePolls = 0
    /\ aborted = FALSE
    /\ outcome = "none"
    /\ exitBy = "none"
    /\ nPolls = 0
    /\ recent = <<>>

\* The caller's cancellation signal fires (at any moment of the call).
SetAbort ==
    /\ fn = "pollForCompletion"
    /\ pc # "done"
    /\ ~aborted
    /\ aborted' = TRUE
    /\ UNCHANGED <<fn, pc, elapsed, lastMsgCount, stablePolls,
                   outcome, exitBy, nPolls, recent, scripted, script>>
    /\ AwaitFrame

\* pollForCompletion, the loop head: the ceiling test, then the abort test.
PollWhile ==
    /\ fn = "pollForCompletion"
    /\ pc = "while"
    /\ IF ~WithinCeiling(elapsed)
       THEN /\ outcome' = "timeout"
            /\ exitBy' = "ceiling"
            /\ pc' = "done"
       ELSE IF AbortObserved(aborted)
            THEN /\ outcome' = "aborted"
                 /\ exitBy' = "abort"
                 /\ pc' = "done"
            ELSE /\ pc' = "sleep"
                 /\ UNCHANGED <<outcome, exitBy>>
    /\ UNCHANGED <<fn, elapsed, lastMsgCount, stablePolls, aborted, nPolls,
                   recent, scripted, script>>
    /\ AwaitFrame

\* The counters after a poll that observed o.
StableAfter(o) ==
    IF SessionRunning(o.status) THEN 0
    ELSE IF CountStable(o.count, lastMsgCount) THEN stablePolls + 1 ELSE 0

LastAfter(o) ==
    IF SessionRunning(o.status) THEN 0
    ELSE IF CountStable(o.count, lastMsgCount) THEN lastMsgCount ELSE o.count

\* pollForCompletion, one poll: the sleep, the status query, the messages
\* query (when not running) and the stability bookkeeping.
PollObserve ==
    /\ fn = "pollForCompletion"
    /\ pc = "sleep"
    /\ \E dt \in 1..(1 + MaxLatency), o \in NextAnswers :
          /\ elapsed' = elapsed + dt
          /\ nPolls' = nPolls + 1
          /\ stablePolls' = StableAfter(o)
          /\ lastMsgCount' = LastAfter(o)
          /\ recent' = Push(recent, [status |-> o.status, count |-> o.count,
                                     recorded |-> LastAfter(o)])
          /\ IF ~SessionRunning(o.status) /\ ReachedStability(StableAfter(o))
             THEN /\ outcome' = "complete"
                  /\ exitBy' = "stable"
                  /\ pc' = "done"
             ELSE /\ pc' = "while"
                  /\ UNCHANGED <<outcome, exitBy>>
    /\ UNCHANGED <<fn, aborted, scripted, script>>
    /\ AwaitFrame

\* invokeAgent, the loop head: the ceiling test and the settling delay.
InvokeWhile ==
    /\ fn = "invokeAgent"
    /\ pc = "while"
    /\ IF ~WithinCeiling(elapsed)
       THEN /\ exitBy' = "ceiling"
            /\ pc' = "extract"
            /\ UNCHANGED elapsed
       ELSE IF elapsed > WarmupTicks
            THEN /\ pc' = "sleep"
                 /\ UNCHANGED <<elapsed, exitBy>>
            ELSE /\ elapsed' = elapsed + WarmupSleepTicks
                 /\ UNCHANGED <<pc, exitBy>>
    /\ UNCHANGED <<fn, lastMsgCount, stablePolls, aborted, outcome,
                   nPolls, recent, scripted, script>>
    /\ AwaitFrame

\* invokeAgent, one poll.  The messages query may answer with an error,
\* which the function throws.
InvokeObserve ==
    /\ fn = "invokeAgent"
    /\ pc = "sleep"
    /\ \E dt \in 1..(1 + MaxLatency), o \in NextAnswers, msgError \in BOOLEAN :
          /\ elapsed' = elapsed + dt
          /\ nPolls' = nPolls + 1
          /\ IF ~SessionRunning(o.status) /\ msgError
             THEN /\ outcome' = "error"
                  /\ exitBy' = "error"
                  /\ pc' = "done"
                  /\ UNCHANGED <<stablePolls, lastMsgCount, recent>>
             ELSE /\ stablePolls' = StableAfter(o)
                  /\ lastMsgCount' = LastAfter(o)
                  /\ recent' = Push(recent, [status |-> o.status, count |-> o.count,
                                             recorded |-> LastAfter(o)])
                  /\ IF ~SessionRunning(o.status) /\ ReachedStability(StableAfter(o))
                     THEN /\ exitBy' = "stable"
                          /\ pc' = "extract"
                          /\ UNCHANGED outcome
                     ELSE /\ pc' = "while"
                          /\ UNCHANGED <<outcome, exitBy>>
    /\ UNCHANGED <<fn, aborted, scripted, script>>
    /\ AwaitFrame

\* invokeAgent after its loop, however the loop ended: fetch the messages,
\* take the last assistant message, parse it.  Any step may fail.
InvokeExtract ==
    /\ fn = "invokeAgent"
    /\ pc = "extract"
    /\ \E r \in {"returned", "error"} : outcome' = r
    /\ pc' = "done"
    /\ UNCHANGED <<fn, elapsed, lastMsgCount, stablePolls, aborted,
                   exitBy, nPolls, recent, scripted, script>>
    /\ AwaitFrame

\* No aggregation made.
NoOutput == [scores |-> <<>>, overallScore |-> 0, variance |-> 0, consensus |-> "none"]

NoSummary == [totalStrengths |-> 0, totalWeaknesses |-> 0, commonStrengths |-> <<>>,
              commonWeaknesses |-> <<>>, riskLevels |-> <<>>]

PureIdle ==
    /\ aggBy = "none"
    /\ criteria = <<>>
    /\ scoreResults = <<>>
    /\ aggOut = NoOutput
    /\ candidates = <<>>
    /\ ranked = <<>>
    /\ rankedBy = "none"
    /\ reviews = <<>>
    /\ summarized = FALSE
    /\ qualitative = NoSummary

\* No extraction made.
NoExtraction == [ok |-> FALSE, value |-> <<>>, preview |-> <<>>]

JsonIdle ==
    /\ text = <<>>
    /\ extractedBy = "none"
    /\ extraction = NoExtraction

PersistIdle ==
    /\ pimpl = "none"
    /\ models = <<>>
    /\ today = 0
    /\ ptask = <<>>
    /\ stamp = <<>>
    /\ pfiles = {}
    /\ settled = <<>>
    /\ presults = <<>>
    /\ ppc = "returned"
    /\ resultsPath = <<>>

ExtraIdle == JsonIdle /\ PersistIdle

\* No generation run.
GenIdle ==
    /\ impl = "none"
    /\ topicGiven = FALSE
    /\ dirExisted = FALSE
    /\ qualEnabled = FALSE
    /\ quantEnabled = FALSE
    /\ gpc = "done"
    /\ cur = 0
    /\ rcur = 0
    /\ tpc = <<>>
    /\ created = {}
    /\ inflight = {}
    /\ failed = {}
    /\ writes = <<>>
    /\ results = <<>>
    /\ kept = {}
    /\ toolResult = "none"
    /\ reported = <<>>
    /\ ranking = <<>>

\* The isolation hook at rest (no tool call made).
NoRequest == [tool |-> "", path |-> <<>>, prog |-> "", hasSession |-> FALSE]

GuardIdle ==
    /\ isoEnabled = TRUE
    /\ via = "none"
    /\ request = NoRequest
    /\ owner = <<>>
    /\ verdict = "none"
    /\ hookOutcome = "none"
    /\ unhandled = FALSE

Init ==
    /\ \E f \in {"pollForCompletion", "invokeAgent"} : AwaitInit(f)
    /\ scripted = FALSE
    /\ script = <<>>
    /\ GuardIdle
    /\ GenIdle
    /\ ExtraIdle
    /\ PureIdle

Next ==
    \/ SetAbort
    \/ PollWhile
    \/ PollObserve
    \/ InvokeWhile
    \/ InvokeObserve
    \/ InvokeExtract

Spec == Init /\ [][Next]_vars

(***************************************************************************)
(* pollForCompletion alone, with every status and messages query          *)
(* answering: the loop head is the program's own step, and a poll ends     *)
(* once its timer and its queries have returned.  The cancellation signal  *)
(* may never fire.                                                         *)
(***************************************************************************)
InitPoll ==
    /\ AwaitInit("pollForCompletion")
    /\ scripted = FALSE
    /\ script = <<>>
    /\ GuardIdle
    /\ GenIdle
    /\ ExtraIdle
    /\ PureIdle

NextPoll ==
    \/ SetAbort
    \/ PollWhile
    \/ PollObserve

SpecPoll == InitPoll /\ [][NextPoll]_vars /\ WF_vars(PollWhile) /\ WF_vars(PollObserve)

(***************************************************************************)
(* pollForCompletion against a session that answers                        *)
(* [running, running, idle, idle, idle, idle], with count a at the first   *)
(* idle poll and the non-zero count c from the second idle poll onward.    *)
(***************************************************************************)
Scenario(a, c) ==
    << [status |-> "busy", count |-> 0],
       [status |-> "busy", count |-> 0],
       [status |-> "idle", count |-> a],
       [status |-> "idle", count |-> c],
       [status |-> "idle", count |-> c],
       [status |-> "idle", count |-> c] >>

InitScenario ==
    /\ AwaitInit("pollForCompletion")
    /\ scripted = TRUE
    /\ \E a \in Counts, c \in Counts \ {0} : script = Scenario(a, c)
    /\ GuardIdle
    /\ GenIdle
    /\ ExtraIdle
    /\ PureIdle

NextScenario ==
    \/ SetAbort
    \/ PollWhile
    \/ PollObserve

SpecScenario == InitScenario /\ [][NextScenario]_vars

(***************************************************************************)
(* The design isolation hook.  Paths and ids are strings, modelled as      *)
(* sequences of characters so that String.startsWith and String.includes   *)
(* compare characters as they do in the source.  All paths are absolute    *)
(* POSIX paths.                                                            *)
(***************************************************************************)
\* The longest target path below the base directory, in segments.
MaxDepth == 3

Slash == <<"/">>
Dot == <<".">>
DotDot == <<".", ".">>

\* The names used in paths: "d" stands for "designs" and "dx" for a sibling
\* whose name begins with it (designs-archive); A, AB and B are design ids.
NameDesigns == <<"d">>
NameSibling == <<"d", "x">>
IdA == <<"A">>
IdAB == <<"A", "B">>
IdB == <<"B">>
NameFile == <<"f">>
BaseDir == <<"/", "p">>

StartsWith(s, prefix) ==
    Len(prefix) <= Len(s) /\ SubSeq(s, 1, Len(prefix)) = prefix

Includes(s, sub) ==
    \E i \in 0..(Len(s) - Len(sub)) : SubSeq(s, i + 1, i + Len(sub)) = sub

\* The segments of a path: the text between its slashes.
RECURSIVE SplitFrom(_, _, _)
SplitFrom(s, i, seg) ==
    IF i > Len(s) THEN <<seg>>
    ELSE IF s[i] = "/" THEN <<seg>> \o SplitFrom(s, i + 1, <<>>)
    ELSE SplitFrom(s, i + 1, Append(seg, s[i]))

Segments(s) == SplitFrom(s, 1, <<>>)

\* Drop empty and "." segments; ".." removes the segment before it (and
\* stays at the root of an absolute path).
RECURSIVE Resolve(_, _)
Resolve(segs, stack) ==
    IF segs = <<>> THEN stack
    ELSE LET h == Head(segs) IN
         IF h = <<>> \/ h = Dot THEN Resolve(Tail(segs), stack)
         ELSE IF h = DotDot
              THEN Resolve(Tail(segs),
                           IF stack = <<>> THEN <<>>
                           ELSE SubSeq(stack, 1, Len(stack) - 1))
              ELSE Resolve(Tail(segs), Append(stack, h))

RECURSIVE JoinSegs(_)
JoinSegs(segs) ==
    IF segs = <<>> THEN <<>> ELSE Slash \o Head(segs) \o JoinSegs(Tail(segs))

\* path.normalize of an absolute path (a trailing slash is kept).
PathNormalize(p) ==
    LET body == JoinSegs(Resolve(Segments(p), <<>>))
    IN  IF body = <<>> THEN Slash
        ELSE IF p[Len(p)] = "/" THEN body \o Slash ELSE body

\* path.join(a, b)
PathJoin(a, b) == PathNormalize(a \o Slash \o b)

\* constructor: this.designsDir = path.join(options.baseDir, "designs")
designsDir == PathJoin(BaseDir, NameDesigns)

\* isDesignPath
isDesignPath(targetPath) ==
    StartsWith(PathNormalize(targetPath), PathNormalize(designsDir))

\* isAllowedRead
isAllowedRead(enabled, targetPath, currentDesignId) ==
    IF ~enabled THEN TRUE
    ELSE IF ~isDesignPath(targetPath) THEN TRUE
    ELSE IF currentDesignId = <<>> THEN FALSE
    ELSE StartsWith(PathNormalize(targetPath), PathJoin(designsDir, currentDesignId))

restrictedCommands == {"cd", "ls", "cat", "grep", "find", "rm", "cp", "mv"}

\* A shell command is "<prog> <path>": its first word is prog, and since
\* program names hold no slash, the command text includes designsDir
\* exactly when its path argument does.
FirstWord(req) == req.prog
CommandIncludes(req, dir) == Includes(req.path, dir)

\* The function getHandler(currentDesignId) returns, applied to a tool call:
\* "violation" when it throws, "ok" when it completes.
HandlerVerdict(enabled, req, currentDesignId) ==
    IF ~enabled THEN "ok"
    ELSE IF /\ req.tool = "read"
            /\ req.path # <<>>
            /\ ~isAllowedRead(enabled, req.path, currentDesignId)
         THEN "violation"
    ELSE IF /\ req.tool = "write"
            /\ req.path # <<>>
            /\ isDesignPath(req.path)
            /\ \/ currentDesignId = <<>>
               \/ ~StartsWith(PathNormalize(req.path),
                              PathJoin(designsDir, currentDesignId))
         THEN "violation"
    ELSE IF /\ req.tool \in {"bash", "interactive_bash"}
            /\ req.path # <<>>
            /\ FirstWord(req) \in restrictedCommands
            /\ CommandIncludes(req, designsDir)
            /\ currentDesignId = <<>>
         THEN "violation"
    ELSE "ok"

\* ---------------- the paths at which a run persists its artifacts ----------------
\* Model names, file names and dates are sequences of characters; a date is
\* a day number, written as one digit.  In names "l" stands for
\* "design-lab", "t" for the sanitized task or topic, "g-" for the prefix
\* "design-", "j" for "json" and "r" for "results".

\* The days a run can last beyond the day it began.
MaxDays == 1

\* sanitizeForFilename: .substring(0, 50)
FilenameLimit == 50

Digits == <<"0", "1", "2", "3", "4">>
DateName(day) == <<Digits[day + 1]>>
NameTask == <<"t">>
NameOutput == <<".", "l">>
NameResults == <<"r", ".", "j">>
JsonExt == <<".", "j">>
DesignPrefix == <<"g", "-">>

\* Configured model names: provider and model, "a/m".
ModelNames ==
    { <<"a", "/", "m">>, <<"b", "/", "m">>, <<"a", "-", "m">>,
      <<"a", "/", "M">>, <<"m", ".", "n">> }

\* The lists of n distinct model names.
ModelLists(n) ==
    { q \in [1..n -> ModelNames] : \A i, j \in 1..n : i # j => q[i] # q[j] }

\* String.prototype.toLowerCase
ToLowerCase(s) == [i \in DOMAIN s |-> IF s[i] = "M" THEN "m" ELSE s[i]]

\* .replace(/\//g, "-")
ReplaceSlashes(s) == [i \in DOMAIN s |-> IF s[i] = "/" THEN "-" ELSE s[i]]

\* .replace(/[^a-z0-9\s-]/g, "")
SafeChars == {"a", "b", "m", "n", "0", "1", "2", "3", "4", " ", "-"}
RemoveSpecial(s) == SelectSeq(s, LAMBDA c : c \in SafeChars)

\* .replace(/\s+/g, "-"): every run of white space becomes one hyphen.
RECURSIVE SpacesToHyphen(_)
SpacesToHyphen(s) ==
    IF s = <<>> THEN <<>>
    ELSE IF Head(s) = " "
         THEN IF Len(s) > 1 /\ s[2] = " " THEN SpacesToHyphen(Tail(s))
              ELSE <<"-">> \o SpacesToHyphen(Tail(s))
         ELSE <<Head(s)>> \o SpacesToHyphen(Tail(s))

\* .replace(/-+/g, "-")
RECURSIVE CollapseHyphens(_)
CollapseHyphens(s) ==
    IF s = <<>> THEN <<>>
    ELSE IF Head(s) = "-" /\ Len(s) > 1 /\ s[2] = "-" THEN CollapseHyphens(Tail(s))
    ELSE <<Head(s)>> \o CollapseHyphens(Tail(s))

Substring(s, n) == SubSeq(s, 1, IF Len(s) < n THEN Len(s) ELSE n)

sanitizeForFilename(s) ==
    Substring(CollapseHyphens(SpacesToHyphen(RemoveSpecial(ReplaceSlashes(ToLowerCase(s))))),
              FilenameLimit)

\* parts[parts.length - 1] || modelName
getModelShortName(modelName) ==
    LET parts == Segments(modelName) IN
    IF parts[Len(parts)] # <<>> THEN parts[Len(parts)] ELSE modelName

\* outputDir of the plugin, <directory>/.design-lab, which is also the tool's
\* <directory>/<base_output_dir>.
OutputDir == PathJoin(BaseDir, NameOutput)

\* <output>/<date>-<task>
ExperimentDir(day) == PathJoin(OutputDir, DateName(day) \o <<"-">> \o NameTask)

\* The orchestrator's artifact file name: `design-${model.replace(/\//g, "-")}.json`
OrchArtifactFile(model) == DesignPrefix \o ReplaceSlashes(model) \o JsonExt

\* The tool's: `${sanitizeForFilename(getModelShortName(model))}.json`
ToolArtifactFile(model) == sanitizeForFilename(getModelShortName(model)) \o JsonExt

ArtifactFile(i, model) == IF i = "orch" THEN OrchArtifactFile(model) ELSE ToolArtifactFile(model)

ArtifactPath(i, day, model) ==
    PathJoin(PathJoin(ExperimentDir(day), NameDesigns), ArtifactFile(i, model))

\* Every path at which generateDesignsInParallel can persist an artifact.
OrchArtifactPaths ==
    { ArtifactPath("orch", day, model) : day \in 0..MaxDays, model \in ModelNames }

\* The inputs: target paths below the base directory, tools, programs, ids.
PathNames == {NameDesigns, NameSibling, IdA, IdAB, IdB, NameFile, DotDot}

RECURSIVE PathsOfDepth(_)
PathsOfDepth(n) ==
    IF n = 0 THEN {BaseDir}
    ELSE { q \o Slash \o name : q \in PathsOfDepth(n - 1), name \in PathNames }

TargetPaths == UNION { PathsOfDepth(n) : n \in 1..MaxDepth }

OwnerIds == {<<>>, IdA, IdB, IdAB}
FileTools == {"read", "write"}
ShellTools == {"bash", "interactive_bash"}
Programs == {"cat", "ls", "head", "python3"}

RequestPaths == TargetPaths \cup OrchArtifactPaths

Requests ==
    { [tool |-> t, path |-> q, prog |-> "", hasSession |-> h] :
          t \in FileTools, q \in RequestPaths, h \in BOOLEAN }
      \cup
    { [tool |-> t, path |-> q, prog |-> g, hasSession |-> h] :
          t \in ShellTools, q \in RequestPaths, g \in Programs, h \in BOOLEAN }

GuardFrame == UNCHANGED <<awaitVars, genVars, rankVars, pureVars, extraVars>>

\* A handler obtained from getHandler(currentDesignId) is applied to a tool call.
HandlerCall ==
    /\ via = "none"
    /\ \E req \in Requests, id \in OwnerIds :
          /\ request' = req
          /\ owner' = id
          /\ verdict' = HandlerVerdict(isoEnabled, req, id)
    /\ via' = "handler"
    /\ UNCHANGED <<isoEnabled, hookOutcome, unhandled>>
    /\ GuardFrame

\* The "tool.execute.before" hook the plugin registers is called.  It is
\* registered only when createDesignIsolationHook returned a hook; it returns
\* at once when the call carries no session id; otherwise it calls
\* getHandler()(...) without awaiting or returning the promise, so a throw of
\* the handler becomes a rejection nobody handles.
PluginHookCall ==
    /\ via = "none"
    /\ \E req \in Requests :
          /\ request' = req
          /\ owner' = <<>>
          /\ IF ~isoEnabled
             THEN /\ hookOutcome' = "unregistered"
                  /\ verdict' = "none"
                  /\ unhandled' = FALSE
             ELSE IF ~req.hasSession
                  THEN /\ hookOutcome' = "returned"
                       /\ verdict' = "none"
                       /\ unhandled' = FALSE
                  ELSE /\ verdict' = HandlerVerdict(isoEnabled, req, <<>>)
                       /\ hookOutcome' = "returned"
                       /\ unhandled' = (HandlerVerdict(isoEnabled, req, <<>>) = "violation")
    /\ via' = "plugin"
    /\ UNCHANGED isoEnabled
    /\ GuardFrame

\* The await subsystem at rest.
AwaitIdle ==
    /\ AwaitInit("pollForCompletion")
    /\ scripted = FALSE
    /\ script = <<>>

InitGuard ==
    /\ AwaitIdle
    /\ isoEnabled \in BOOLEAN
    /\ via = "none"
    /\ request = NoRequest
    /\ owner = <<>>
    /\ verdict = "none"
    /\ hookOutcome = "none"
    /\ unhandled = FALSE
    /\ GenIdle
    /\ ExtraIdle
    /\ PureIdle

NextGuard ==
    \/ HandlerCall
    \/ PluginHookCall

SpecGuard == InitGuard /\ [][NextGuard]_vars

(***************************************************************************)
(* A run of design generation.  Two implementations exist:                 *)
(*   "tool": createGenerateDesignsTool.execute, sequential, one try/catch  *)
(*           per model, with the duplicate-directory check;                *)
(*   "orch": run_design_experiment, i.e. generateDesignsInParallel (one    *)
(*           concurrent task per model under Promise.all), then the        *)
(*           sequential review and scoring loops, then ranking.            *)
(***************************************************************************)
\* The number of configured design models and of reviewer models.
NumDesignModels == 2
NumReviewModels == 2

DesignModels == [i \in 1..NumDesignModels |-> i]
ReviewModels == [i \in 1..NumReviewModels |-> i]

Session(kind, model, design) == [kind |-> kind, model |-> model, design |-> design]
File(kind, model, design) == [kind |-> kind, model |-> model, design |-> design]

\* fs.writeFile / fs.writeFileSync
Wrote(w, f) ==
    IF f \in DOMAIN w THEN [w EXCEPT ![f] = @ + 1] ELSE w @@ (f :> 1)

WroteAll(w, fs) ==
    LET RECURSIVE W(_, _)
        W(acc, rest) == IF rest = <<>> THEN acc ELSE W(Wrote(acc, Head(rest)), Tail(rest))
    IN  W(w, fs)

GenFrame == UNCHANGED <<awaitVars, guardVars, rankVars, pureVars, extraVars>>

\* The frame of the steps that produce a ranking.
RankFrame == UNCHANGED <<awaitVars, guardVars, pureVars, extraVars>>

GenInit(i) ==
    /\ impl = i
    /\ gpc = (IF i = "tool" THEN "topic" ELSE "gen")
    /\ cur = 1
    /\ rcur = 1
    /\ tpc = (IF i = "tool" THEN <<>> ELSE [m \in 1..NumDesignModels |-> "creating"])
    /\ created = {}
    /\ inflight = {}
    /\ failed = {}
    /\ writes = <<>>
    /\ results = <<>>
    /\ kept = {}
    /\ toolResult = "none"
    /\ reported = <<>>
    /\ ranking = <<>>

(* ---------------- createGenerateDesignsTool.execute ---------------- *)

\* The topic: sanitizeForFilename(userTopic), or generateTopic, which creates
\* a session and sends it a prompt.
ToolTopicStart ==
    /\ impl = "tool" /\ gpc = "topic"
    /\ IF topicGiven
       THEN /\ gpc' = "check"
            /\ UNCHANGED <<created, inflight, failed, toolResult>>
       ELSE \E ok \in BOOLEAN :
              IF ok
              THEN /\ created' = created \cup {Session("topic", 0, 0)}
                   /\ inflight' = inflight \cup {Session("topic", 0, 0)}
                   /\ gpc' = "topic_wait"
                   /\ UNCHANGED <<failed, toolResult>>
              ELSE /\ failed' = failed \cup {Session("topic", 0, 0)}
                   /\ toolResult' = "thrown"
                   /\ gpc' = "done"
                   /\ UNCHANGED <<created, inflight>>
    /\ UNCHANGED <<impl, topicGiven, dirExisted, qualEnabled, quantEnabled, cur, rcur,
                   tpc, writes, results, kept, reported>>
    /\ GenFrame

\* generateTopic: pollForCompletion and extractSessionOutput return or throw.
ToolTopicEnd ==
    /\ impl = "tool" /\ gpc = "topic_wait"
    /\ inflight' = inflight \ {Session("topic", 0, 0)}
    /\ \E ok \in BOOLEAN :
          IF ok
          THEN /\ gpc' = "check"
               /\ UNCHANGED <<failed, toolResult>>
          ELSE /\ failed' = failed \cup {Session("topic", 0, 0)}
               /\ toolResult' = "thrown"
               /\ gpc' = "done"
    /\ UNCHANGED <<impl, topicGiven, dirExisted, qualEnabled, quantEnabled, cur, rcur,
                   tpc, created, writes, results, kept, reported>>
    /\ GenFrame

\* fs.existsSync(labDir): refuse, or create the directories and task.json.
ToolCheckDir ==
    /\ impl = "tool" /\ gpc = "check"
    /\ IF dirExisted
       THEN /\ toolResult' = "error_exists"
            /\ gpc' = "done"
            /\ UNCHANGED writes
       ELSE /\ writes' = Wrote(writes, File("task", 0, 0))
            /\ gpc' = "loop"
            /\ UNCHANGED toolResult
    /\ UNCHANGED <<impl, topicGiven, dirExisted, qualEnabled, quantEnabled, cur, rcur,
                   tpc, created, inflight, failed, results, kept, reported>>
    /\ GenFrame

\* One iteration of the for loop begins: generateDesign creates the session
\* and sends the prompt; a throw is caught and recorded.
ToolDesignStart ==
    /\ impl = "tool" /\ gpc = "loop" /\ cur <= NumDesignModels
    /\ LET m == DesignModels[cur] IN
       \E ok \in BOOLEAN :
          IF ok
          THEN /\ created' = created \cup {Session("design", m, 0)}
               /\ inflight' = inflight \cup {Session("design", m, 0)}
               /\ gpc' = "loop_wait"
               /\ UNCHANGED <<failed, results, cur>>
          ELSE /\ failed' = failed \cup {Session("design", m, 0)}
               /\ results' = Append(results, [model |-> m, success |-> FALSE])
               /\ cur' = cur + 1
               /\ UNCHANGED <<created, inflight, gpc>>
    /\ UNCHANGED <<impl, topicGiven, dirExisted, qualEnabled, quantEnabled, rcur,
                   tpc, writes, kept, toolResult, reported>>
    /\ GenFrame

\* The iteration ends: the design came back and is valid (it is written as
\* JSON and as markdown), or generateDesign threw, or validation failed.
ToolDesignEnd ==
    /\ impl = "tool" /\ gpc = "loop_wait"
    /\ LET m == DesignModels[cur] IN
       /\ inflight' = inflight \ {Session("design", m, 0)}
       /\ \E r \in {"ok", "throw", "invalid"} :
             IF r = "ok"
             THEN /\ writes' = WroteAll(writes, <<File("design", m, 0), File("design_md", m, 0)>>)
                  /\ results' = Append(results, [model |-> m, success |-> TRUE])
                  /\ UNCHANGED failed
             ELSE /\ failed' = failed \cup {Session("design", m, 0)}
                  /\ results' = Append(results, [model |-> m, success |-> FALSE])
                  /\ UNCHANGED writes
    /\ cur' = cur + 1
    /\ gpc' = "loop"
    /\ UNCHANGED <<impl, topicGiven, dirExisted, qualEnabled, quantEnabled, rcur,
                   tpc, created, kept, toolResult, reported>>
    /\ GenFrame

\* After the loop: the summary lists every result.
ToolReturn ==
    /\ impl = "tool" /\ gpc = "loop" /\ cur > NumDesignModels
    /\ toolResult' = "summary"
    /\ reported' = results
    /\ gpc' = "done"
    /\ UNCHANGED <<impl, topicGiven, dirExisted, qualEnabled, quantEnabled, cur, rcur,
                   tpc, created, inflight, failed, writes, results, kept>>
    /\ GenFrame

(* ---------------- review_designs and aggregate_scores (the tool pipeline) ---------------- *)

\* How many times aggregate_scores is called.
MaxAggregateCalls == 1

\* fs.readdirSync(designsDir) filtered to .json: the designs in the lab.
DesignsPresent == { f.model : f \in { g \in DOMAIN writes : g.kind = "design" } }

\* fs.readdirSync(scoresDir) filtered to .json: the score files in the lab.
ScoreFiles == { f \in DOMAIN writes : f.kind = "score" }

WroteSet(w, fs) ==
    [f \in DOMAIN w \cup fs |->
        IF f \in DOMAIN w THEN w[f] + (IF f \in fs THEN 1 ELSE 0) ELSE 1]

\* review_designs is called on the lab generate_designs left; with no design
\* file it returns an error string.
ReviewToolStart ==
    /\ impl = "tool" /\ gpc = "done" /\ toolResult = "summary"
    /\ DesignsPresent # {}
    /\ gpc' = "review_tool"
    /\ rcur' = 1
    /\ UNCHANGED <<impl, topicGiven, dirExisted, qualEnabled, quantEnabled, cur,
                   tpc, created, inflight, failed, writes, results, kept, toolResult, reported>>
    /\ GenFrame

\* One iteration over reviewModels begins: generateReview creates the
\* session and sends the prompt; a throw is caught and recorded.
ReviewToolStepStart ==
    /\ impl = "tool" /\ gpc = "review_tool" /\ rcur <= NumReviewModels
    /\ LET s == Session("review", ReviewModels[rcur], 0) IN
       \E ok \in BOOLEAN :
          IF ok
          THEN /\ created' = created \cup {s}
               /\ inflight' = inflight \cup {s}
               /\ gpc' = "review_tool_wait"
               /\ UNCHANGED <<failed, rcur>>
          ELSE /\ failed' = failed \cup {s}
               /\ rcur' = rcur + 1
               /\ UNCHANGED <<created, inflight, gpc>>
    /\ UNCHANGED <<impl, topicGiven, dirExisted, qualEnabled, quantEnabled, cur,
                   tpc, writes, results, kept, toolResult, reported>>
    /\ GenFrame

\* The iteration ends: the review and one score file per design are written,
\* or generateReview threw and the failure is recorded.
ReviewToolStepEnd ==
    /\ impl = "tool" /\ gpc = "review_tool_wait"
    /\ LET r == ReviewModels[rcur]
           s == Session("review", r, 0)
       IN
       /\ inflight' = inflight \ {s}
       /\ \E ok \in BOOLEAN :
             IF ok
             THEN /\ writes' = WroteSet(writes, {File("review_md", r, 0)}
                                  \cup { File("score", r, d) : d \in DesignsPresent })
                  /\ UNCHANGED failed
             ELSE /\ failed' = failed \cup {s}
                  /\ UNCHANGED writes
    /\ rcur' = rcur + 1
    /\ gpc' = "review_tool"
    /\ UNCHANGED <<impl, topicGiven, dirExisted, qualEnabled, quantEnabled, cur,
                   tpc, created, results, kept, toolResult, reported>>
    /\ GenFrame

\* After the loop review_designs returns its summary.
ReviewToolReturn ==
    /\ impl = "tool" /\ gpc = "review_tool" /\ rcur > NumReviewModels
    /\ gpc' = "review_tool_done"
    /\ UNCHANGED <<impl, topicGiven, dirExisted, qualEnabled, quantEnabled, cur, rcur,
                   tpc, created, inflight, failed, writes, results, kept, toolResult, reported>>
    /\ GenFrame

\* The reviewers whose failure review_designs has recorded, for each design.
ReviewFailures(sessions, designs) ==
    { <<x.model, d>> : x \in { y \in sessions : y.kind = "review" }, d \in designs }

\* aggregate_scores is a tool of its own: it runs whenever it is called, and
\* it is synchronous, so it runs between two awaits of review_designs as
\* well.  With no score file it returns an error string; otherwise it ranks
\* the designs that have score files from the files that are there.
AggregateScoresTool ==
    /\ impl = "tool"
    /\ Len(ranking) < MaxAggregateCalls
    /\ ScoreFiles # {}
    /\ LET designs == { f.design : f \in ScoreFiles } IN
       /\ ranking' = Append(ranking,
                            [by |-> "aggregate_scores",
                             candidates |-> designs,
                             scored |-> { <<f.model, f.design>> : f \in ScoreFiles },
                             failed |-> ReviewFailures(failed, designs)])
       /\ writes' = WroteSet(writes, {File("ranking", 0, 0), File("results_md", 0, 0)})
    /\ UNCHANGED <<impl, topicGiven, dirExisted, qualEnabled, quantEnabled, gpc, cur, rcur,
                   tpc, created, inflight, failed, results, kept, toolResult, reported>>
    /\ RankFrame

(* ---------------- run_design_experiment over the orchestrator ---------------- *)

\* A task of generateDesignsInParallel rejects: Promise.all rejects with the
\* first rejection, generateDesignsInParallel throws, and so does the tool.
\* The other tasks run on.
MainAfterTaskFailure == IF gpc = "gen" THEN "done" ELSE gpc
ResultAfterTaskFailure == IF gpc = "gen" THEN "thrown" ELSE toolResult

\* session.create answers; on success invokeDesignAgent sends the prompt.
GenTaskCreated(m) ==
    /\ impl = "orch" /\ tpc[m] = "creating"
    /\ \E ok \in BOOLEAN :
          IF ok
          THEN /\ created' = created \cup {Session("design", m, 0)}
               /\ inflight' = inflight \cup {Session("design", m, 0)}
               /\ tpc' = [tpc EXCEPT ![m] = "inflight"]
               /\ UNCHANGED <<failed, gpc, toolResult>>
          ELSE /\ failed' = failed \cup {Session("design", m, 0)}
               /\ tpc' = [tpc EXCEPT ![m] = "failed"]
               /\ gpc' = MainAfterTaskFailure
               /\ toolResult' = ResultAfterTaskFailure
               /\ UNCHANGED <<created, inflight>>
    /\ UNCHANGED <<impl, topicGiven, dirExisted, qualEnabled, quantEnabled, cur, rcur,
                   writes, results, kept, reported>>
    /\ GenFrame

\* invokeDesignAgent returns the artifact or throws.
GenTaskCompleted(m) ==
    /\ impl = "orch" /\ tpc[m] = "inflight"
    /\ inflight' = inflight \ {Session("design", m, 0)}
    /\ \E ok \in BOOLEAN :
          IF ok
          THEN /\ tpc' = [tpc EXCEPT ![m] = "responded"]
               /\ UNCHANGED <<failed, gpc, toolResult>>
          ELSE /\ failed' = failed \cup {Session("design", m, 0)}
               /\ tpc' = [tpc EXCEPT ![m] = "failed"]
               /\ gpc' = MainAfterTaskFailure
               /\ toolResult' = ResultAfterTaskFailure
    /\ UNCHANGED <<impl, topicGiven, dirExisted, qualEnabled, quantEnabled, cur, rcur,
                   created, writes, results, kept, reported>>
    /\ GenFrame

\* mkdir(designsDir, recursive), write task.json, write the artifact.
GenTaskPersist(m) ==
    /\ impl = "orch" /\ tpc[m] = "responded"
    /\ writes' = WroteAll(writes, <<File("task", 0, 0), File("design", m, 0)>>)
    /\ tpc' = [tpc EXCEPT ![m] = "written"]
    /\ UNCHANGED <<impl, topicGiven, dirExisted, qualEnabled, quantEnabled, gpc, cur, rcur,
                   created, inflight, failed, results, kept, toolResult, reported>>
    /\ GenFrame

TaskResolvedAtResponse(t) == t \in {"responded", "written"}

\* A task's promise resolves at its return statement, after the awaited
\* mkdir and writeFile calls.
TaskResolved(t) == t = "written"

\* Promise.all resolves: one DesignResult per model, in the order of the list.
GenAllResolved ==
    /\ impl = "orch" /\ gpc = "gen"
    /\ \A m \in 1..NumDesignModels : TaskResolved(tpc[m])
    /\ results' = [i \in 1..NumDesignModels |-> [model |-> DesignModels[i], success |-> TRUE]]
    /\ gpc' = "review"
    /\ cur' = 1
    /\ rcur' = 1
    /\ UNCHANGED <<impl, topicGiven, dirExisted, qualEnabled, quantEnabled,
                   tpc, created, inflight, failed, writes, kept, toolResult, reported>>
    /\ GenFrame

\* The phase after a sequential review or scoring phase.
PhaseAfter(phase) == IF phase = "review" THEN "score" ELSE "rank"
PhaseEnabled(phase) == IF phase = "review" THEN qualEnabled ELSE quantEnabled

\* generateQualitativeReviewsInParallel / generateQuantitativeScoresInParallel:
\* the phase is skipped when disabled and ends when the loops are exhausted.
PhaseDone(phase) ==
    /\ impl = "orch" /\ gpc = phase
    /\ ~PhaseEnabled(phase) \/ cur > Len(results)
    /\ gpc' = PhaseAfter(phase)
    /\ cur' = 1
    /\ rcur' = 1
    /\ UNCHANGED <<impl, topicGiven, dirExisted, qualEnabled, quantEnabled,
                   tpc, created, inflight, failed, writes, results, kept, toolResult, reported>>
    /\ GenFrame

\* One iteration for (design cur, reviewer rcur) begins: session.create; a
\* failure is rethrown and ends the whole tool call.
PhaseStepStart(phase) ==
    /\ impl = "orch" /\ gpc = phase
    /\ PhaseEnabled(phase) /\ cur <= Len(results)
    /\ LET s == Session(phase, ReviewModels[rcur], results[cur].model) IN
       \E ok \in BOOLEAN :
          IF ok
          THEN /\ created' = created \cup {s}
               /\ inflight' = inflight \cup {s}
               /\ gpc' = phase \o "_wait"
               /\ UNCHANGED <<failed, toolResult>>
          ELSE /\ failed' = failed \cup {s}
               /\ toolResult' = "thrown"
               /\ gpc' = "done"
               /\ UNCHANGED <<created, inflight>>
    /\ UNCHANGED <<impl, topicGiven, dirExisted, qualEnabled, quantEnabled, cur, rcur,
                   tpc, writes, results, kept, reported>>
    /\ GenFrame

\* The iteration ends: the result is written and kept, or the agent's
\* failure is rethrown and ends the whole tool call.
PhaseStepEnd(phase) ==
    /\ impl = "orch" /\ gpc = phase \o "_wait"
    /\ LET r == ReviewModels[rcur]
           d == results[cur].model
           s == Session(phase, r, d)
       IN
       /\ inflight' = inflight \ {s}
       /\ \E ok \in BOOLEAN :
             IF ok
             THEN /\ writes' = Wrote(writes, File(phase, r, d))
                  /\ kept' = kept \cup {s}
                  /\ gpc' = phase
                  /\ IF rcur < NumReviewModels
                     THEN rcur' = rcur + 1 /\ cur' = cur
                     ELSE rcur' = 1 /\ cur' = cur + 1
                  /\ UNCHANGED <<failed, toolResult>>
             ELSE /\ failed' = failed \cup {s}
                  /\ toolResult' = "thrown"
                  /\ gpc' = "done"
                  /\ UNCHANGED <<writes, kept, cur, rcur>>
    /\ UNCHANGED <<impl, topicGiven, dirExisted, qualEnabled, quantEnabled,
                   tpc, created, results, reported>>
    /\ GenFrame

\* The (reviewer, design) pairs of the scoring sessions in a set of sessions.
ScoredBy(sessions) == { <<x.model, x.design>> : x \in { y \in sessions : y.kind = "score" } }

\* rankDesigns, results.json in designs[0].designDir, and the JSON answer.
ExperimentReturn ==
    /\ impl = "orch" /\ gpc = "rank"
    /\ writes' = (IF Len(results) > 0 THEN Wrote(writes, File("results", 0, 0)) ELSE writes)
    /\ toolResult' = "json"
    /\ reported' = results
    /\ ranking' = Append(ranking,
                         [by |-> "run_design_experiment",
                          candidates |-> { results[i].model : i \in DOMAIN results },
                          scored |-> ScoredBy(kept),
                          failed |-> ScoredBy(failed)])
    /\ gpc' = "done"
    /\ UNCHANGED <<impl, topicGiven, dirExisted, qualEnabled, quantEnabled, cur, rcur,
                   tpc, created, inflight, failed, results, kept>>
    /\ RankFrame

InitGen ==
    /\ AwaitIdle
    /\ GuardIdle
    /\ PureIdle
    /\ ExtraIdle
    /\ topicGiven \in BOOLEAN
    /\ dirExisted \in BOOLEAN
    /\ qualEnabled \in BOOLEAN
    /\ quantEnabled \in BOOLEAN
    /\ \E i \in {"tool", "orch"} : GenInit(i)

NextGen ==
    \/ ToolTopicStart
    \/ ToolTopicEnd
    \/ ToolCheckDir
    \/ ToolDesignStart
    \/ ToolDesignEnd
    \/ ToolReturn
    \/ ReviewToolStart
    \/ ReviewToolStepStart
    \/ ReviewToolStepEnd
    \/ ReviewToolReturn
    \/ AggregateScoresTool
    \/ \E m \in 1..NumDesignModels : GenTaskCreated(m)
    \/ \E m \in 1..NumDesignModels : GenTaskCompleted(m)
    \/ \E m \in 1..NumDesignModels : GenTaskPersist(m)
    \/ GenAllResolved
    \/ \E phase \in {"review", "score"} : PhaseDone(phase)
    \/ \E phase \in {"review", "score"} : PhaseStepStart(phase)
    \/ \E phase \in {"review", "score"} : PhaseStepEnd(phase)
    \/ ExperimentReturn

SpecGen == InitGen /\ [][NextGen]_vars

(***************************************************************************)
(* Score aggregation: aggregateScores and calculateOverallScore of the     *)
(* orchestrator, aggregateQuantitativeScores of the reviews module.        *)
(* Numbers are exact: a reviewer's value is value / ValueDenominator, an   *)
(* aggregated value counts units of 1 / Unit, rounded perReviewer count        *)
(* hundredths.  Floating-point error is not modelled.                      *)
(***************************************************************************)
\* A reviewer's value is a multiple of 1 / ValueDenominator.
ValueDenominator == 8
\* The largest whole score a reviewer gives.
MaxScore == 3

Unit == 100 * ValueDenominator

\* Math.round(x * 100), for x = num / den with den > 0: x in hundredths,
\* halves rounded up.
Round2(num, den) == (200 * num + den) \div (2 * den)

\* `w || 1.0`
OrDefault(w) == IF w = 0 THEN 1 ELSE w

RECURSIVE SumSeq(_)
SumSeq(q) == IF q = <<>> THEN 0 ELSE Head(q) + SumSeq(Tail(q))

RECURSIVE Flat(_)
Flat(q) == IF q = <<>> THEN <<>> ELSE Head(q) \o Flat(Tail(q))

\* scoreResults.flatMap((sr) => sr.scores).filter((s) => s.name === criterion.name)
CriterionScores(perReviewer, name) ==
    SelectSeq(Flat([i \in DOMAIN perReviewer |-> perReviewer[i].scores]),
              LAMBDA sc : sc.name = name)

NoScoresProvided == <<"No scores provided">>
NoComments == <<"No comments">>

\* `[${s.model}] ${s.comment || ""}`, token by token; the comment is a
\* sequence of tokens, empty for an empty or missing comment.
CommentEntry(sc) == <<"[", sc.model, "]", " ">> \o sc.comment

RECURSIVE JoinEntries(_)
JoinEntries(es) ==
    IF es = <<>> THEN <<>>
    ELSE IF Len(es) = 1 THEN Head(es)
    ELSE Head(es) \o <<"; ">> \o JoinEntries(Tail(es))

\* .map(entry).filter((c) => c).join("; "), then `comments || "No comments"`
AggregatedComment(cs) ==
    LET entries == SelectSeq([i \in DOMAIN cs |-> CommentEntry(cs[i])],
                             LAMBDA e : e # <<>>)
        comments == JoinEntries(entries)
    IN  IF comments = <<>> THEN NoComments ELSE comments

\* The weight recorded in the entry of a criterion that received no score.
PlaceholderWeight(criterion) == 1

\* The average of the weighted values, never divided by the weight again.
MeanOfWeightedValues(cs, weight) ==
    Round2(weight * SumSeq([i \in DOMAIN cs |-> cs[i].value]),
           Len(cs) * ValueDenominator)

\* average = (sum of value * weight) / n; weightedAverage = average / weight;
\* the entry's value is round(weightedAverage * 100) / 100.
MeanValue(cs, weight) ==
    Round2(weight * SumSeq([i \in DOMAIN cs |-> cs[i].value]),
           Len(cs) * weight * ValueDenominator)

\* (sum of (value - weightedAverage)^2) / n, rounded to hundredths.
Variance(cs) ==
    LET n == Len(cs)
        total == SumSeq([i \in DOMAIN cs |-> cs[i].value])
        dev == [i \in DOMAIN cs |-> (n * cs[i].value - total) * (n * cs[i].value - total)]
    IN  Round2(SumSeq(dev), n * n * n * ValueDenominator * ValueDenominator)

\* One iteration of the loop over the criteria.
AggregateCriterion(perReviewer, criterion) ==
    LET cs == CriterionScores(perReviewer, criterion.name) IN
    IF cs = <<>>
    THEN [name |-> criterion.name, value |-> criterion.min * Unit,
          weight |-> PlaceholderWeight(criterion), variance |-> 0,
          comment |-> NoScoresProvided]
    ELSE [name |-> criterion.name,
          value |-> MeanValue(cs, OrDefault(criterion.weight)) * ValueDenominator,
          weight |-> OrDefault(criterion.weight),
          variance |-> Variance(cs),
          comment |-> AggregatedComment(cs)]

aggregateScores(perReviewer, crits) ==
    [i \in DOMAIN crits |-> AggregateCriterion(perReviewer, crits[i])]

\* The loop of calculateOverallScore.
TotalWeight(scores) == SumSeq([i \in DOMAIN scores |-> OrDefault(scores[i].weight)])
WeightedSum(scores) ==
    SumSeq([i \in DOMAIN scores |-> scores[i].value * OrDefault(scores[i].weight)])

\* In hundredths.
calculateOverallScore(scores) ==
    IF scores = <<>> THEN 0
    ELSE IF TotalWeight(scores) > 0
         THEN Round2(WeightedSum(scores), TotalWeight(scores) * Unit)
         ELSE 0

\* avgVariance < 0.5, < 1.5, else; avgVariance = totalVariance / count with
\* totalVariance in hundredths.
ConsensusHighUpToHalf(totalVariance, count) ==
    IF count = 0 \/ 2 * totalVariance <= 100 * count THEN "high"
    ELSE IF 2 * totalVariance < 300 * count THEN "medium"
    ELSE "low"

Consensus(totalVariance, count) ==
    IF count = 0 \/ 2 * totalVariance < 100 * count THEN "high"
    ELSE IF 2 * totalVariance < 300 * count THEN "medium"
    ELSE "low"

(* ---------------- aggregateQuantitativeScores (reviews) ---------------- *)
\* The reviews module is translated from its own text; it takes the scores
\* as one list of scores per review.

\* Only the first review is read.
FirstReviewerScores(scores, name) ==
    IF scores = <<>> THEN <<>>
    ELSE SelectSeq(Head(scores), LAMBDA sc : sc.name = name)

\* scores.flat().filter((s) => s.name === criterion.name)
ReviewsCriterionScores(scores, name) ==
    LET RECURSIVE flat(_)
        flat(q) == IF q = <<>> THEN <<>> ELSE Head(q) \o flat(Tail(q))
    IN  SelectSeq(flat(scores), LAMBDA sc : sc.name = name)

\* average = (sum of value * weight) / n; weightedAverage = average / weight;
\* Math.round(weightedAverage * 100), in hundredths.
ReviewsMeanValue(cs, weight) ==
    LET weightedValues == [i \in DOMAIN cs |-> cs[i].value * weight] IN
    Round2(SumSeq(weightedValues), Len(weightedValues) * weight * ValueDenominator)

\* Math.round(variance * 100): the squared distances from weightedAverage
\* = total / (n * ValueDenominator), summed and divided by n.
ReviewsVariance(cs) ==
    LET n == Len(cs)
        total == SumSeq([i \in DOMAIN cs |-> cs[i].value])
        sq(i) == (n * cs[i].value - total) * (n * cs[i].value - total)
    IN  Round2(SumSeq([i \in DOMAIN cs |-> sq(i)]),
               n * n * n * ValueDenominator * ValueDenominator)

\* .map(entry).filter((c) => c).join("; "), then `comments || "No comments"`
ReviewsComment(cs) ==
    LET mapped == [i \in DOMAIN cs |-> <<"[", cs[i].model, "]", " ">> \o cs[i].comment]
        comments == JoinEntries(SelectSeq(mapped, LAMBDA c : c # <<>>))
    IN  IF comments = <<>> THEN NoComments ELSE comments

\* One iteration of the loop over the criteria.
ReviewsAggregateCriterion(scores, criterion) ==
    LET criterionScores == ReviewsCriterionScores(scores, criterion.name)
        weight == IF criterion.weight = 0 THEN 1 ELSE criterion.weight
    IN  IF Len(criterionScores) = 0
        THEN [name |-> criterion.name, value |-> criterion.min * Unit, weight |-> 1,
              variance |-> 0, comment |-> NoScoresProvided]
        ELSE [name |-> criterion.name,
              value |-> ReviewsMeanValue(criterionScores, weight) * ValueDenominator,
              weight |-> weight,
              variance |-> ReviewsVariance(criterionScores),
              comment |-> ReviewsComment(criterionScores)]

\* The second loop: <<weightedSum, totalWeight, totalVariance>> after the
\* first k entries.
RECURSIVE ReviewsTotals(_, _)
ReviewsTotals(aggregated, k) ==
    IF k = 0 THEN <<0, 0, 0>>
    ELSE LET before == ReviewsTotals(aggregated, k - 1)
             score == aggregated[k]
             weight == IF score.weight = 0 THEN 1 ELSE score.weight
         IN  <<before[1] + score.value * weight, before[2] + weight,
               before[3] + score.variance>>

aggregateQuantitativeScores(scores, crits) ==
    LET aggregated == [i \in DOMAIN crits |-> ReviewsAggregateCriterion(scores, crits[i])]
        totals == ReviewsTotals(aggregated, Len(aggregated))
        weightedSum == totals[1]
        totalWeight == totals[2]
        totalVariance == totals[3]
        count == Len(aggregated)
    IN  [scores |-> aggregated,
         overallScore |-> IF totalWeight > 0
                          THEN Round2(weightedSum, totalWeight * Unit)
                          ELSE 0,
         variance |-> IF count > 0 THEN Round2(totalVariance, 100 * count) ELSE 0,
         consensus |-> Consensus(totalVariance, count)]

(* ---------------- the inputs ---------------- *)

CriterionNames == <<"a", "b">>
CriterionMins == <<0, 1>>
Weights == {0, 1, 2}
AggModels == <<"m1", "m2">>
Absent == -1

\* Whole scores, and one value between two hundredths.
ScoreValues == { i * ValueDenominator : i \in 0..MaxScore } \cup {1}

\* Values whose variances, in hundredths, add up to an odd total: 0.75 and
\* 3.375 against 0 give 0.14 and 2.85.
BoundaryValues == {0, 6, 27}

\* The criteria lists: the first n names, each with a weight.
CriteriaLists ==
    UNION { { [i \in 1..n |-> [name |-> CriterionNames[i], min |-> CriterionMins[i],
                               weight |-> w[i]]] : w \in [1..n -> Weights] }
            : n \in 0..Len(CriterionNames) }

\* The scores of reviewer r, given each (reviewer, criterion) slot: a value or Absent.
ScoresOf(r, slot, cmt) ==
    LET all == [c \in DOMAIN CriterionNames |->
                   [name |-> CriterionNames[c], value |-> slot[r][c],
                    model |-> AggModels[r], comment |-> cmt[r][c]]]
    IN  SelectSeq(all, LAMBDA sc : sc.value # Absent)

ScoreResultsOf(slot, cmt) ==
    [r \in DOMAIN AggModels |-> [model |-> AggModels[r], scores |-> ScoresOf(r, slot, cmt)]]

Slots(values) == [DOMAIN AggModels -> [DOMAIN CriterionNames -> values \cup {Absent}]]

AggFrame == UNCHANGED <<awaitVars, guardVars, genVars, rankVars, extraVars>>

\* rankDesigns: aggregateScores, then calculateOverallScore.
AggregateByOrchestrator ==
    /\ aggBy = "none"
    /\ aggBy' = "orchestrator"
    /\ LET aggregated == aggregateScores(scoreResults, criteria) IN
       aggOut' = [scores |-> aggregated,
                  overallScore |-> calculateOverallScore(aggregated),
                  variance |-> 0,
                  consensus |-> "none"]
    /\ UNCHANGED <<criteria, scoreResults, candidates, ranked, rankedBy,
                   reviews, summarized, qualitative>>
    /\ AggFrame

AggregateByReviews ==
    /\ aggBy = "none"
    /\ aggBy' = "reviews"
    /\ aggOut' = aggregateQuantitativeScores(
                     [r \in DOMAIN scoreResults |-> scoreResults[r].scores], criteria)
    /\ UNCHANGED <<criteria, scoreResults, candidates, ranked, rankedBy,
                   reviews, summarized, qualitative>>
    /\ AggFrame

\* Either the values vary and every comment is the same, or the values are
\* the same and the comments vary, or the values lie around a threshold.
InitAgg ==
    /\ AwaitIdle
    /\ GuardIdle
    /\ GenIdle
    /\ ExtraIdle
    /\ aggBy = "none"
    /\ aggOut = NoOutput
    /\ candidates = <<>> /\ ranked = <<>> /\ rankedBy = "none"
    /\ reviews = <<>> /\ summarized = FALSE /\ qualitative = NoSummary
    /\ criteria \in CriteriaLists
    /\ \/ \E slot \in Slots(ScoreValues) :
             scoreResults = ScoreResultsOf(slot, [r \in DOMAIN AggModels |->
                                                   [c \in DOMAIN CriterionNames |-> <<"ok">>]])
       \/ \E slot \in Slots({MaxScore * ValueDenominator}) :
          \E cmt \in [DOMAIN AggModels -> [DOMAIN CriterionNames -> {<<>>, <<"ok">>}]] :
             scoreResults = ScoreResultsOf(slot, cmt)
       \/ \E slot \in Slots(BoundaryValues) :
             scoreResults = ScoreResultsOf(slot, [r \in DOMAIN AggModels |->
                                                   [c \in DOMAIN CriterionNames |-> <<"ok">>]])

NextAgg ==
    \/ AggregateByOrchestrator
    \/ AggregateByReviews

SpecAgg == InitAgg /\ [][NextAgg]_vars

(***************************************************************************)
(* Ranking: rankDesigns of the orchestrator and the ranking loop of        *)
(* aggregate_scores.  A candidate is [designId, given], given being the    *)
(* overall values its reviewers gave; a ranked entry carries its score as  *)
(* the fraction num / den.                                                 *)
(***************************************************************************)
\* The largest number of candidates ranked at once.
MaxCandidates == 3

RankValues == {0, ValueDenominator, 2 * ValueDenominator}

\* The values given to one candidate: by no reviewer, by one, or by two.
GivenValues ==
    {<<>>} \cup { <<v>> : v \in RankValues } \cup { <<v, w>> : v, w \in RankValues }

\* The lists of n candidates.
CandidateLists(n) ==
    { [i \in 1..n |-> [designId |-> i, given |-> g[i]]] : g \in [1..n -> GivenValues] }

\* quantitativeScores[design.artifact.id] || []: one reviewer per value,
\* each scoring the one criterion.
RankCriteria == <<[name |-> "a", min |-> 0, weight |-> 1]>>
ScoreResultsFor(c) ==
    [r \in DOMAIN c.given |->
        [model |-> r,
         scores |-> <<[name |-> "a", value |-> c.given[r], model |-> r, comment |-> <<>>]>>]]

\* The comparator puts x before y: b.overallScore - a.overallScore > 0.
SortsBeforeOrTies(x, y) == x.num * y.den >= y.num * x.den

SortsBefore(x, y) == x.num * y.den > y.num * x.den

\* Array.prototype.sort is stable: an entry goes after every entry already
\* placed that it does not sort before.
RECURSIVE InsertSorted(_, _)
InsertSorted(placed, x) ==
    IF placed = <<>> THEN <<x>>
    ELSE IF SortsBefore(x, Head(placed)) THEN <<x>> \o placed
    ELSE <<Head(placed)>> \o InsertSorted(Tail(placed), x)

RECURSIVE SortDescending(_, _)
SortDescending(placed, rest) ==
    IF rest = <<>> THEN placed
    ELSE SortDescending(InsertSorted(placed, Head(rest)), Tail(rest))

\* rankDesigns: one ScoredDesign per design, then the sort.  A ScoredDesign
\* has no rank field.
rankDesigns(designs) ==
    SortDescending(<<>>,
        [i \in DOMAIN designs |->
            [designId |-> designs[i].designId,
             num |-> calculateOverallScore(aggregateScores(ScoreResultsFor(designs[i]), RankCriteria)),
             den |-> 100]])

\* aggregate_scores: one Ranking per design that has score files, its
\* average_score unrounded; the sort; then rank = i + 1.
ToolRankings(designs) ==
    LET scored == SelectSeq(designs, LAMBDA c : c.given # <<>>)
        sorted == SortDescending(<<>>,
                     [i \in DOMAIN scored |->
                         [designId |-> scored[i].designId,
                          num |-> SumSeq(scored[i].given),
                          den |-> Len(scored[i].given) * ValueDenominator]])
    IN  [i \in DOMAIN sorted |->
            [designId |-> sorted[i].designId, num |-> sorted[i].num,
             den |-> sorted[i].den, rank |-> i]]

\* The rank_designs tool: the designs read from the output directory, then
\* rankDesigns with empty qualitativeReviews and quantitativeScores records.
rankDesignsTool(designs) ==
    SortDescending(<<>>,
        [i \in DOMAIN designs |->
            [designId |-> designs[i].designId,
             num |-> calculateOverallScore(aggregateScores(<<>>, RankCriteria)),
             den |-> 100]])

RankDesignsCall ==
    /\ rankedBy = "none"
    /\ rankedBy' = "rankDesigns"
    /\ ranked' = rankDesigns(candidates)
    /\ UNCHANGED <<aggBy, criteria, scoreResults, aggOut, candidates,
                   reviews, summarized, qualitative>>
    /\ AggFrame

AggregateToolRanks ==
    /\ rankedBy = "none"
    /\ rankedBy' = "aggregate_scores"
    /\ ranked' = ToolRankings(candidates)
    /\ UNCHANGED <<aggBy, criteria, scoreResults, aggOut, candidates,
                   reviews, summarized, qualitative>>
    /\ AggFrame

RankDesignsToolCall ==
    /\ rankedBy = "none"
    /\ rankedBy' = "rank_designs"
    /\ ranked' = rankDesignsTool(candidates)
    /\ UNCHANGED <<aggBy, criteria, scoreResults, aggOut, candidates,
                   reviews, summarized, qualitative>>
    /\ AggFrame

InitRank ==
    /\ AwaitIdle
    /\ GuardIdle
    /\ GenIdle
    /\ ExtraIdle
    /\ aggBy = "none" /\ criteria = <<>> /\ scoreResults = <<>> /\ aggOut = NoOutput
    /\ \E n \in 0..MaxCandidates : candidates \in CandidateLists(n)
    /\ ranked = <<>>
    /\ rankedBy = "none"
    /\ reviews = <<>> /\ summarized = FALSE /\ qualitative = NoSummary

NextRank ==
    \/ RankDesignsCall
    \/ AggregateToolRanks
    \/ RankDesignsToolCall

SpecRank == InitRank /\ [][NextRank]_vars

(***************************************************************************)
(* The qualitative summary of a candidate: aggregateQualitativeReviews.    *)
(***************************************************************************)
\* The largest number of reviews of one candidate.
MaxReviews == 3

StrengthLists == {<<>>, <<"s1">>, <<"s2">>, <<"s1", "s1">>, <<"s1", "s2">>}
WeaknessLists == {<<>>, <<"w1">>, <<"w1", "w1">>}
RiskLevels == {"low", "high"}

\* The lists of n reviews.
ReviewLists(n) ==
    [1..n -> [strengths : StrengthLists, weaknesses : WeaknessLists,
              risk_assessment : RiskLevels]]

\* counts.set(item, (counts.get(item) || 0) + 1) for every element of every
\* review's list: the number of occurrences.
Occurrences(lists, item) ==
    Len(SelectSeq(Flat(lists), LAMBDA x : x = item))

\* The keys of the Map, in insertion order: each item at its first occurrence.
RECURSIVE Distinct(_, _)
Distinct(seen, rest) ==
    IF rest = <<>> THEN seen
    ELSE IF \E k \in DOMAIN seen : seen[k] = Head(rest)
         THEN Distinct(seen, Tail(rest))
         ELSE Distinct(Append(seen, Head(rest)), Tail(rest))

\* Array.from(counts.entries()).filter(([_, count]) => count >= reviews.length * 0.5)
CommonItems(lists) ==
    SelectSeq(Distinct(<<>>, Flat(lists)),
              LAMBDA item : 2 * Occurrences(lists, item) >= Len(lists))

aggregateQualitativeReviews(rs) ==
    LET strengths == [i \in DOMAIN rs |-> rs[i].strengths]
        weaknesses == [i \in DOMAIN rs |-> rs[i].weaknesses]
    IN  [totalStrengths |-> Len(Flat(strengths)),
         totalWeaknesses |-> Len(Flat(weaknesses)),
         commonStrengths |-> CommonItems(strengths),
         commonWeaknesses |-> CommonItems(weaknesses),
         riskLevels |-> [l \in { rs[i].risk_assessment : i \in DOMAIN rs } |->
                            Cardinality({ i \in DOMAIN rs : rs[i].risk_assessment = l })]]

SummarizeReviews ==
    /\ ~summarized
    /\ summarized' = TRUE
    /\ qualitative' = aggregateQualitativeReviews(reviews)
    /\ UNCHANGED <<aggBy, criteria, scoreResults, aggOut, candidates, ranked, rankedBy, reviews>>
    /\ AggFrame

InitQual ==
    /\ AwaitIdle
    /\ GuardIdle
    /\ GenIdle
    /\ ExtraIdle
    /\ aggBy = "none" /\ criteria = <<>> /\ scoreResults = <<>> /\ aggOut = NoOutput
    /\ candidates = <<>> /\ ranked = <<>> /\ rankedBy = "none"
    /\ \E n \in 0..MaxReviews : reviews \in ReviewLists(n)
    /\ summarized = FALSE
    /\ qualitative = NoSummary

NextQual == SummarizeReviews

SpecQual == InitQual /\ [][NextQual]_vars

(***************************************************************************)
(* JSON extraction from a response: extractJSON of the session helpers and *)
(* the response parsing of invokeAgent.  A text is a sequence of tokens:   *)
(* "F" is a code fence (three backquotes), "Q" a double quote, "1" a       *)
(* digit, "x" a letter, " " white space, and the four brackets.  JSON      *)
(* over these tokens has numbers, strings, the empty object and arrays of  *)
(* at most one element.  The optional "json" tag after a fence is left out.*)
(***************************************************************************)
MaxTextLen == 4

\* text.substring(0, 200) of the diagnostic.
PreviewLength == 200

Tokens == {"F", "Q", "{", "}", "[", "]", "1", "x", " "}

RECURSIVE TrimStart(_)
TrimStart(s) == IF s # <<>> /\ Head(s) = " " THEN TrimStart(Tail(s)) ELSE s

RECURSIVE TrimEnd(_)
TrimEnd(s) ==
    IF s # <<>> /\ s[Len(s)] = " " THEN TrimEnd(SubSeq(s, 1, Len(s) - 1)) ELSE s

\* String.prototype.trim
Trim(s) == TrimEnd(TrimStart(s))

Inner(s) == SubSeq(s, 2, Len(s) - 1)

\* JSON.parse accepts s (white space around a value is allowed).
RECURSIVE JsonParses(_)
JsonParses(s) ==
    LET t == Trim(s) IN
    /\ t # <<>>
    /\ \/ \A i \in DOMAIN t : t[i] = "1"
       \/ /\ Len(t) >= 2
          /\ \/ /\ Head(t) = "Q" /\ t[Len(t)] = "Q"
                /\ \A i \in 2..(Len(t) - 1) : t[i] # "Q"
             \/ /\ Head(t) = "{" /\ t[Len(t)] = "}"
                /\ Trim(Inner(t)) = <<>>
             \/ /\ Head(t) = "[" /\ t[Len(t)] = "]"
                /\ (Trim(Inner(t)) = <<>> \/ JsonParses(Inner(t)))

\* The value JSON.parse returns for s, written without insignificant white space.
RECURSIVE JsonValue(_)
JsonValue(s) ==
    LET t == Trim(s) IN
    IF Head(t) = "[" /\ Trim(Inner(t)) # <<>>
    THEN <<"[">> \o JsonValue(Inner(t)) \o <<"]">>
    ELSE IF Head(t) \in {"[", "{"} THEN <<Head(t), t[Len(t)]>>
    ELSE t

Positions(s, tok) == { i \in DOMAIN s : s[i] = tok }

Least(S) == CHOOSE i \in S : \A j \in S : i <= j
Greatest(S) == CHOOSE i \in S : \A j \in S : j <= i

\* text.match(/```(?:json)?\s*([\s\S]*?)```/): the first fence that has a
\* fence after it, and the text up to the next fence.
HasFencedBlock(s) == Cardinality(Positions(s, "F")) >= 2

FencedBlock(s) ==
    LET open == Least(Positions(s, "F"))
        close == Least(Positions(s, "F") \ {open})
    IN  SubSeq(s, open + 1, close - 1)

\* text.match(/(\{[\s\S]*\}|\[[\s\S]*\])/): the leftmost opening bracket
\* that has its closing bracket somewhere after it, up to the last such
\* closing bracket.
Closer(tok) == IF tok = "{" THEN "}" ELSE "]"

BracketStarts(s) ==
    { i \in DOMAIN s : /\ s[i] \in {"{", "["}
                       /\ \E j \in Positions(s, Closer(s[i])) : j > i }

HasBracketMatch(s) == BracketStarts(s) # {}

BracketMatch(s) ==
    LET start == Least(BracketStarts(s)) IN
    SubSeq(s, start, Greatest(Positions(s, Closer(s[start]))))

Preview(s) == SubSeq(s, 1, IF Len(s) < PreviewLength THEN Len(s) ELSE PreviewLength)

Parsed(s, whole) ==
    IF JsonParses(s)
    THEN [ok |-> TRUE, value |-> JsonValue(s), preview |-> <<>>]
    ELSE [ok |-> FALSE, value |-> <<>>, preview |-> Preview(whole)]

extractJSON(s) ==
    IF HasFencedBlock(s) THEN Parsed(Trim(FencedBlock(s)), s)
    ELSE IF HasBracketMatch(s) THEN Parsed(BracketMatch(s), s)
    ELSE Parsed(Trim(s), s)

\* invokeAgent: the response text is replaced by the fenced block when there
\* is one, and parsed once; the diagnostic carries the text that was parsed.
invokeAgentParse(s) ==
    LET responseText == IF HasFencedBlock(s) THEN Trim(FencedBlock(s)) ELSE s IN
    Parsed(responseText, responseText)

Texts(n) == [1..n -> Tokens]

JsonFrame == UNCHANGED <<awaitVars, guardVars, genVars, rankVars, pureVars, persistVars>>

ExtractJSONCall ==
    /\ extractedBy = "none"
    /\ extractedBy' = "extractJSON"
    /\ extraction' = extractJSON(text)
    /\ UNCHANGED text
    /\ JsonFrame

InvokeAgentParseCall ==
    /\ extractedBy = "none"
    /\ extractedBy' = "invokeAgent"
    /\ extraction' = invokeAgentParse(text)
    /\ UNCHANGED text
    /\ JsonFrame

InitJson ==
    /\ AwaitIdle
    /\ GuardIdle
    /\ GenIdle
    /\ PureIdle
    /\ PersistIdle
    /\ \E n \in 0..MaxTextLen : text \in Texts(n)
    /\ extractedBy = "none"
    /\ extraction = NoExtraction

NextJson ==
    \/ ExtractJSONCall
    \/ InvokeAgentParseCall

SpecJson == InitJson /\ [][NextJson]_vars

(***************************************************************************)
(* Where a run persists its design artifacts: the loop of                  *)
(* createGenerateDesignsTool.execute ("tool") and the concurrent tasks of  *)
(* generateDesignsInParallel followed by the results.json of               *)
(* run_design_experiment ("orch").                                         *)
(***************************************************************************)
\* fs.writeFile: the file holds what was written last.
FileAt(fs, p) == CHOOSE f \in fs : f.path = p
WriteFile(fs, p, by) ==
    IF \E f \in fs : f.path = p
    THEN (fs \ {FileAt(fs, p)}) \cup {[path |-> p, by |-> by, n |-> FileAt(fs, p).n + 1]}
    ELSE fs \cup {[path |-> p, by |-> by, n |-> 1]}

\* The value a task's promise resolves with.
TaskValue(k) ==
    [model |-> models[k], artifact |-> k, designDir |-> ExperimentDir(stamp[k])]

ValuesAsSettled(order) == [k \in DOMAIN order |-> TaskValue(order[k])]

\* Promise.all: the values in the order of the promises, whatever the order
\* in which they settled.
PromiseAllValues(order) == [k \in DOMAIN order |-> TaskValue(k)]

PersistFrame == UNCHANGED <<awaitVars, guardVars, genVars, rankVars, pureVars, jsonVars>>

\* Midnight passes while the run is under way.
DayPasses ==
    /\ ppc = "gen"
    /\ today < MaxDays
    /\ today' = today + 1
    /\ UNCHANGED <<pimpl, models, ptask, stamp, pfiles, settled, presults, ppc, resultsPath>>
    /\ PersistFrame

\* The tool's loop, model k: generateDesign, then the artifact is written
\* under the lab directory named at the start of the run; a failure is kept
\* in the results list.
ToolModelDone(k) ==
    /\ pimpl = "tool" /\ ppc = "gen"
    /\ ptask[k] = "running"
    /\ \A j \in 1..(k - 1) : ptask[j] # "running"
    /\ \E ok \in BOOLEAN :
          IF ok
          THEN /\ ptask' = [ptask EXCEPT ![k] = "written"]
               /\ pfiles' = WriteFile(pfiles, ArtifactPath("tool", stamp[k], models[k]), k)
               /\ settled' = Append(settled, k)
          ELSE /\ ptask' = [ptask EXCEPT ![k] = "failed"]
               /\ UNCHANGED <<pfiles, settled>>
    /\ UNCHANGED <<pimpl, models, today, stamp, presults, ppc, resultsPath>>
    /\ PersistFrame

ToolReturns ==
    /\ pimpl = "tool" /\ ppc = "gen"
    /\ \A k \in DOMAIN ptask : ptask[k] # "running"
    /\ ppc' = "returned"
    /\ UNCHANGED <<pimpl, models, today, ptask, stamp, pfiles, settled, presults, resultsPath>>
    /\ PersistFrame

\* A task of generateDesignsInParallel: invokeDesignAgent returns and the
\* task takes its timestamp, or it throws and Promise.all rejects.
TaskResponded(k) ==
    /\ pimpl = "orch"
    /\ ptask[k] = "running"
    /\ \E ok \in BOOLEAN :
          IF ok
          THEN /\ ptask' = [ptask EXCEPT ![k] = "responded"]
               /\ stamp' = [stamp EXCEPT ![k] = today]
               /\ UNCHANGED ppc
          ELSE /\ ptask' = [ptask EXCEPT ![k] = "failed"]
               /\ ppc' = (IF ppc = "gen" THEN "thrown" ELSE ppc)
               /\ UNCHANGED stamp
    /\ UNCHANGED <<pimpl, models, today, pfiles, settled, presults, resultsPath>>
    /\ PersistFrame

\* mkdir, task.json, the artifact file; then the task returns its result.
TaskPersisted(k) ==
    /\ pimpl = "orch"
    /\ ptask[k] = "responded"
    /\ ptask' = [ptask EXCEPT ![k] = "written"]
    /\ pfiles' = WriteFile(pfiles, ArtifactPath("orch", stamp[k], models[k]), k)
    /\ settled' = Append(settled, k)
    /\ UNCHANGED <<pimpl, models, today, stamp, presults, ppc, resultsPath>>
    /\ PersistFrame

\* return Promise.all(designPromises)
AllResolved ==
    /\ pimpl = "orch" /\ ppc = "gen"
    /\ \A k \in DOMAIN ptask : ptask[k] = "written"
    /\ presults' = PromiseAllValues(settled)
    /\ ppc' = "resolved"
    /\ UNCHANGED <<pimpl, models, today, ptask, stamp, pfiles, settled, resultsPath>>
    /\ PersistFrame

\* run_design_experiment, step 5: results.json under designs[0].designDir.
ExperimentSave ==
    /\ pimpl = "orch" /\ ppc = "resolved"
    /\ resultsPath' = (IF Len(presults) > 0
                       THEN PathJoin(presults[1].designDir, NameResults)
                       ELSE resultsPath)
    /\ ppc' = "saved"
    /\ UNCHANGED <<pimpl, models, today, ptask, stamp, pfiles, settled, presults>>
    /\ PersistFrame

InitPersist ==
    /\ AwaitIdle
    /\ GuardIdle
    /\ GenIdle
    /\ PureIdle
    /\ JsonIdle
    /\ pimpl \in {"tool", "orch"}
    /\ models \in ModelLists(NumDesignModels)
    /\ today = 0
    /\ ptask = [k \in 1..NumDesignModels |-> "running"]
    /\ stamp = [k \in 1..NumDesignModels |-> 0]
    /\ pfiles = {}
    /\ settled = <<>>
    /\ presults = <<>>
    /\ ppc = "gen"
    /\ resultsPath = <<>>

NextPersist ==
    \/ DayPasses
    \/ \E k \in 1..NumDesignModels : ToolModelDone(k)
    \/ ToolReturns
    \/ \E k \in 1..NumDesignModels : TaskResponded(k)
    \/ \E k \in 1..NumDesignModels : TaskPersisted(k)
    \/ AllResolved
    \/ ExperimentSave

SpecPersist == InitPersist /\ [][NextPersist]_vars

(***************************************************************************)
(* Claims about the completion monitor.                                    *)
(***************************************************************************)
LastPolls(n) == { i \in 1..Len(recent) : i > Len(recent) - n }

\* C1: completion is declared (pollForCompletion returns, invokeAgent's loop
\* breaks) only when each of the three most recent polls observed a
\* non-running status and a non-zero message count equal to the count the
\* poll before it recorded; and a poll that observes a running status leaves
\* the stability counter at zero.
C1_CompletionNeedsThreeStablePolls ==
    /\ exitBy = "stable" =>
          /\ Len(recent) >= STABILITY_REQUIRED + 1
          /\ \A i \in LastPolls(STABILITY_REQUIRED) :
                /\ recent[i].status # "busy"
                /\ recent[i].count > 0
                /\ recent[i].count = recent[i - 1].recorded
    /\ (recent # <<>> /\ recent[Len(recent)].status = "busy") => stablePolls = 0

\* A completion reached after at least two earlier polls that did not count
\* towards it.
C1_Witness ==
    /\ fn = "pollForCompletion"
    /\ outcome = "complete"
    /\ nPolls >= STABILITY_REQUIRED + 3

\* C2: a call whose poll loop is left because the ceiling was reached ends
\* with the timeout error, and a successful result is only ever returned for
\* a session that stabilized.
C2_CeilingEndsInTimeout ==
    /\ (pc = "done" /\ exitBy = "ceiling") => outcome = "timeout"
    /\ outcome \in {"complete", "returned"} => exitBy = "stable"

\* C3 as stated: in the scenario, completion is declared at the 5th poll.
C3_CompletesAtFifthPoll ==
    (scripted /\ nPolls = 5) => exitBy = "stable"

\* C3 as amended: in the scenario, completion is never declared before the
\* 6th poll; it is declared at the 6th poll exactly when the first idle poll
\* already observed the count of the later polls, and otherwise not within
\* the six polls.
C3_CompletesAtSixthPoll ==
    scripted =>
        /\ exitBy = "stable" =>
              /\ nPolls = 6
              /\ script[3].count = script[4].count
        /\ (nPolls = 6 /\ script[3].count = script[4].count)
              => exitBy = "stable"

C3_Witness ==
    /\ scripted
    /\ nPolls = 6
    /\ outcome = "complete"

\* C4: when pollForCompletion begins a poll iteration (the ceiling not yet
\* reached) with the cancellation signal set, its next step ends the call
\* with the error 'Task aborted', which is not the timeout error, and no
\* further poll is made.
C4_AbortEndsTheCall ==
    [][ (fn = "pollForCompletion" /\ pc = "while" /\ elapsed < MaxPollTicks /\ aborted)
           => /\ pc' = "done"
              /\ ErrorMessage(outcome') = "Task aborted"
              /\ ErrorMessage(outcome') # ErrorMessage("timeout")
              /\ nPolls' = nPolls ]_vars

\* An abort taken from a state where two stable polls had been counted.
C4_Witness ==
    /\ outcome = "aborted"
    /\ stablePolls = STABILITY_REQUIRED - 1

(***************************************************************************)
(* Claims about the isolation hook.                                        *)
(***************************************************************************)
\* Directory containment: the target, normalized, is dir or lies below it.
UnderDir(targetPath, dir) ==
    LET t == Resolve(Segments(targetPath), <<>>)
        d == Resolve(Segments(dir), <<>>)
    IN  Len(d) <= Len(t) /\ SubSeq(t, 1, Len(d)) = d

FileCallChecked ==
    via = "handler" /\ isoEnabled /\ request.tool \in FileTools

\* C5: with isolation enabled, a read or write whose target lies under the
\* designs root is allowed only if an owner is bound and the target lies
\* inside that owner's own sub-directory.
C5_AllowedOnlyInOwnSubPath ==
    (FileCallChecked /\ UnderDir(request.path, designsDir) /\ verdict = "ok")
        => /\ owner # <<>>
           /\ UnderDir(request.path, PathJoin(designsDir, owner))

\* C6: when the handler run by the plugin's registered tool.execute.before
\* hook denies the call, the hook raises the violation to its caller.
C6_DenialIsRaised ==
    (via = "plugin" /\ verdict = "violation") => hookOutcome = "raised"

\* C7: with isolation enabled, a read or write whose normalized target is
\* not inside the designs root is allowed, whatever owner is bound.
C7_OutsideRootAllowed ==
    (FileCallChecked /\ ~UnderDir(request.path, designsDir)) => verdict = "ok"

\* C8: with isolation enabled and no owner bound, a bash or interactive_bash
\* command whose text contains the designs root is denied, whatever its
\* first word.
C8_ShellCommandDenied ==
    (/\ via = "handler"
     /\ isoEnabled
     /\ request.tool \in ShellTools
     /\ owner = <<>>
     /\ Includes(request.path, designsDir))
        => verdict = "violation"

(***************************************************************************)
(* Claims about a generation run.                                          *)
(***************************************************************************)
ModelFailures == { s \in failed : s.kind \in {"design", "review", "score"} }

ReportedFailed(m) ==
    \E i \in 1..Len(reported) : reported[i].model = m /\ ~reported[i].success

\* C9: a run in which the invocation of some model failed (in generation,
\* review or scoring) still ends with a summary returned to the user: every
\* configured design model was invoked, every successful design is in the
\* summary, and every failed design model is listed in it as failed.
C9_FailureDoesNotAbort ==
    (gpc = "done" /\ impl # "none" /\ ModelFailures # {})
        => /\ toolResult \in {"summary", "json"}
           /\ \A m \in 1..NumDesignModels :
                 Session("design", DesignModels[m], 0) \in created \cup failed
           /\ \A s \in ModelFailures : s.kind = "design" => ReportedFailed(s.model)

\* C9 holds of createGenerateDesignsTool.execute taken alone.
C9_HoldsOfTheTool ==
    impl = "tool" => C9_FailureDoesNotAbort

\* C10: when the run directory already existed, no file is written, no
\* design model is invoked, and the run ends reporting the conflict.
C10_ExistingRunDirRefused ==
    dirExisted
        => /\ writes = <<>>
           /\ \A s \in created : s.kind # "design"
           /\ (gpc = "done" /\ failed = {}) => toolResult = "error_exists"

\* C10 holds of createGenerateDesignsTool.execute taken alone.
C10_HoldsOfTheTool ==
    impl = "tool" => C10_ExistingRunDirRefused

(***************************************************************************)
(* Claims about the order of a run's steps.                                *)
(***************************************************************************)
\* C11: on every run that ends with the duplicate-run error, no agent
\* session has been created and no prompt has been sent.
C11_FatalErrorBeforeAnySession ==
    toolResult = "error_exists" => created = {} /\ inflight = {}

\* With the topic supplied by the caller the duplicate-run error does come
\* before any session.
C11_HoldsWithTopicGiven ==
    (toolResult = "error_exists" /\ topicGiven) => created = {} /\ inflight = {}

\* C12: no review session and no scoring session for a candidate is started
\* before the candidate's generated artifact has been written to the run
\* directory.
\* (A session of review_designs, whose design is 0, reviews the designs it
\* read from the run directory.)
C12_ReviewAfterArtifactWritten ==
    \A s \in created :
        s.kind \in {"review", "score"} =>
            IF s.design = 0
            THEN DesignsPresent # {}
            ELSE File("design", s.design, 0) \in DOMAIN writes

\* A scoring session for the last candidate has been started.
C12_Witness ==
    /\ Session("score", ReviewModels[1], DesignModels[NumDesignModels]) \in created
    /\ File("design", DesignModels[NumDesignModels], 0) \in DOMAIN writes

\* The reviewer models configured.
ConfiguredReviewers == { ReviewModels[i] : i \in DOMAIN ReviewModels }

\* Every configured reviewer had completed its scoring of every candidate of
\* ranking k, or had been recorded as failed, when the ranking was produced.
RankedFromAllReviewers(k) ==
    \A d \in k.candidates : \A r \in ConfiguredReviewers :
        <<r, d>> \in k.scored \cup k.failed

\* C13: aggregation and ranking for a candidate never begin until every
\* configured reviewer model has completed its scoring for that candidate
\* or been recorded as failed (scoring being enabled).
C13_RankingWaitsForAllReviewers ==
    \A i \in DOMAIN ranking :
        (ranking[i].by = "run_design_experiment" => quantEnabled)
            => RankedFromAllReviewers(ranking[i])

\* run_design_experiment ranks only after its scoring loop has ended.
C13_HoldsOfTheExperiment ==
    \A i \in DOMAIN ranking :
        (ranking[i].by = "run_design_experiment" /\ quantEnabled)
            => RankedFromAllReviewers(ranking[i])

\* C14: at no point of a run are two agent sessions both between their
\* prompt being sent and their completion being detected.
C14_OneSessionAtATime == Cardinality(inflight) <= 1

\* The tool pipeline and the orchestrator's review and scoring loops await
\* each session before they create the next.
C14_HoldsOutsideGeneration ==
    (impl = "tool" \/ gpc # "gen") =>
        Cardinality({ s \in inflight : s.kind # "design" \/ impl = "tool" }) <= 1

(***************************************************************************)
(* Claims about score aggregation.                                         *)
(***************************************************************************)
ConfiguredWeightTotal == SumSeq([i \in DOMAIN criteria |-> criteria[i].weight])

\* The sum over all configured criteria of aggregated value times the
\* criterion's own configured weight, divided by the sum of those weights,
\* in hundredths; 0 when the total configured weight is 0.
OverallByConfiguredWeights ==
    IF ConfiguredWeightTotal = 0 THEN 0
    ELSE Round2(SumSeq([i \in DOMAIN criteria |-> aggOut.scores[i].value * criteria[i].weight]),
                ConfiguredWeightTotal * Unit)

\* C15: the overall score of a design equals the weighted mean of the
\* aggregated values under each criterion's own configured weight, rounded
\* to 2 decimals, for every criterion including those that received no
\* reviewer scores; it is 0 when the total configured weight is 0.
C15_OverallUsesConfiguredWeights ==
    aggBy # "none" => aggOut.overallScore = OverallByConfiguredWeights

\* Every configured criterion has a non-zero weight and received a score.
AllWeightedAndScored ==
    \A i \in DOMAIN criteria :
        criteria[i].weight # 0 /\ CriterionScores(scoreResults, criteria[i].name) # <<>>

\* With no zero weight and no criterion left without a score the overall
\* score is the one the claim describes.
C15_HoldsWhenAllWeightedAndScored ==
    (aggBy # "none" /\ AllWeightedAndScored) => aggOut.overallScore = OverallByConfiguredWeights

\* The smallest and the largest of the values contributed to criterion i,
\* as numerators over ValueDenominator.
Contributed(i) ==
    LET cs == CriterionScores(scoreResults, criteria[i].name)
    IN  { cs[j].value : j \in DOMAIN cs }

MinOf(vals) == CHOOSE v \in vals : \A w \in vals : v <= w
MaxOf(vals) == CHOOSE v \in vals : \A w \in vals : v >= w

\* Criterion i was aggregated from at least one contributing score.
HasContribution(i) == aggBy # "none" /\ Contributed(i) # {}

\* The value has at most 2 decimals.
WholeHundredths(v) == (100 * v) % ValueDenominator = 0

\* C16, as stated: for every criterion with at least one contributing
\* reviewer score the aggregated value v satisfies
\* min(contributing values) <= v <= max(contributing values), for every
\* criterion weight.
C16_ValueWithinContributedRange ==
    \A i \in DOMAIN criteria :
        HasContribution(i) =>
            /\ 100 * MinOf(Contributed(i)) <= aggOut.scores[i].value
            /\ aggOut.scores[i].value <= 100 * MaxOf(Contributed(i))

\* C16, amended: the aggregated value is a count of hundredths within 0.005
\* of the range of the contributing values, and within that range when
\* every contributing value has at most 2 decimals, for every criterion
\* weight.
C16_ValueWithinRangeUpToRounding ==
    \A i \in DOMAIN criteria :
        HasContribution(i) =>
            LET v == aggOut.scores[i].value
                lo == 100 * MinOf(Contributed(i))
                hi == 100 * MaxOf(Contributed(i))
            IN  /\ v % ValueDenominator = 0
                /\ 2 * lo - ValueDenominator <= 2 * v
                /\ 2 * v <= 2 * hi + ValueDenominator
                /\ (\A k \in Contributed(i) : WholeHundredths(k)) => lo <= v /\ v <= hi

\* Two reviewers gave different values to a criterion whose weight is
\* neither 0 nor 1, one of them between two hundredths.
C16_Witness ==
    /\ aggBy = "orchestrator"
    /\ \E i \in DOMAIN criteria :
          /\ criteria[i].weight > 1
          /\ Cardinality(Contributed(i)) > 1
          /\ \E k \in Contributed(i) : ~WholeHundredths(k)

\* The sum of the per-criterion variances reported, in hundredths; the mean
\* variance is this sum divided by the number of criteria (0 with none).
ReportedVarianceTotal == SumSeq([i \in DOMAIN aggOut.scores |-> aggOut.scores[i].variance])

\* The largest sum of variances two reviewers can produce.
VarianceTotals == 0..(Len(CriterionNames) * 25 * MaxScore * MaxScore)

ConsensusLevel(label) == CASE label = "high" -> 2 [] label = "medium" -> 1 [] OTHER -> 0

\* C17: consensus is high if the mean variance mv across all criteria is
\* below 0.5, medium if 0.5 <= mv < 1.5, low otherwise; a smaller mean
\* variance never yields a lower-consensus label than a larger one.
C17_ConsensusByFixedThresholds ==
    aggBy = "reviews" =>
        LET t == ReportedVarianceTotal
            n == Len(aggOut.scores)
            halves == IF n = 0 THEN 0 ELSE 2 * t
        IN  /\ aggOut.consensus = "high" <=> halves < 100 * n \/ n = 0
            /\ aggOut.consensus = "medium" <=> n > 0 /\ 100 * n <= halves /\ halves < 300 * n
            /\ aggOut.consensus = "low" <=> n > 0 /\ halves >= 300 * n
            /\ \A u \in VarianceTotals :
                  /\ u <= t => ConsensusLevel(Consensus(u, n)) >= ConsensusLevel(aggOut.consensus)
                  /\ u >= t => ConsensusLevel(Consensus(u, n)) <= ConsensusLevel(aggOut.consensus)

\* A mean variance of exactly 0.5, over two criteria.
C17_Witness ==
    /\ aggBy = "reviews"
    /\ Len(aggOut.scores) = 2
    /\ ReportedVarianceTotal = 100
    /\ aggOut.consensus = "medium"

(***************************************************************************)
(* Claims about ranking.                                                   *)
(***************************************************************************)
\* The candidates a ranking is made of: every design for rankDesigns, the
\* designs that have score files for aggregate_scores.
InputCandidates ==
    IF rankedBy = "aggregate_scores"
    THEN SelectSeq(candidates, LAMBDA c : c.given # <<>>)
    ELSE candidates

InputPosition(id) == CHOOSE i \in DOMAIN InputCandidates : InputCandidates[i].designId = id

SameScore(x, y) == x.num * y.den = y.num * x.den

HasEntryOf(comment, model) ==
    \E k \in DOMAIN comment :
        /\ k + 2 <= Len(comment)
        /\ comment[k] = "[" /\ comment[k + 1] = model /\ comment[k + 2] = "]"

\* C19: for each criterion with contributing scores the aggregated comment
\* has one "[model] comment" entry for each reviewer whose comment is
\* non-empty and none for a reviewer whose comment is empty or missing;
\* when every contributing comment is empty it is "No comments".
C19_EmptyCommentsOmitted ==
    \A i \in DOMAIN criteria :
        HasContribution(i) =>
            LET cs == CriterionScores(scoreResults, criteria[i].name)
                out == aggOut.scores[i].comment
            IN  /\ \A j \in DOMAIN cs : HasEntryOf(out, cs[j].model) <=> cs[j].comment # <<>>
                /\ (\A j \in DOMAIN cs : cs[j].comment = <<>>) => out = NoComments

\* A reviewer with a comment does get its "[model] comment" entry.
C19_HoldsOfNonEmptyComments ==
    \A i \in DOMAIN criteria :
        HasContribution(i) =>
            LET cs == CriterionScores(scoreResults, criteria[i].name) IN
            \A j \in DOMAIN cs :
                cs[j].comment # <<>> => HasEntryOf(aggOut.scores[i].comment, cs[j].model)

(***************************************************************************)
(* Claims about the qualitative summary.                                   *)
(***************************************************************************)
InSeq(q, x) == \E k \in DOMAIN q : q[k] = x

\* The number of reviews whose list holds the item.
ReviewsHolding(lists, item) ==
    Cardinality({ i \in DOMAIN lists : \E k \in DOMAIN lists[i] : lists[i][k] = item })

\* An item is reported as common exactly when at least half of the reviews
\* hold it.
CommonIffInHalfOfReviews(common, lists) ==
    \A item \in { Flat(lists)[k] : k \in DOMAIN Flat(lists) } :
        InSeq(common, item) <=> 2 * ReviewsHolding(lists, item) >= Len(lists)

\* C20: a strength or weakness is reported as common if and only if it
\* appears in at least half of all reviews of the candidate, counted as the
\* number of reviews that contain it.
C20_CommonIffInHalfOfReviews ==
    summarized =>
        /\ CommonIffInHalfOfReviews(qualitative.commonStrengths,
                                    [i \in DOMAIN reviews |-> reviews[i].strengths])
        /\ CommonIffInHalfOfReviews(qualitative.commonWeaknesses,
                                    [i \in DOMAIN reviews |-> reviews[i].weaknesses])

\* No review names an item twice.
NoRepeatedItem ==
    \A i \in DOMAIN reviews :
        /\ \A k, l \in DOMAIN reviews[i].strengths :
              reviews[i].strengths[k] = reviews[i].strengths[l] => k = l
        /\ \A k, l \in DOMAIN reviews[i].weaknesses :
              reviews[i].weaknesses[k] = reviews[i].weaknesses[l] => k = l

\* When no review names an item twice, occurrences and reviews count alike.
C20_HoldsWithoutRepeatedItems ==
    (summarized /\ NoRepeatedItem) =>
        /\ CommonIffInHalfOfReviews(qualitative.commonStrengths,
                                    [i \in DOMAIN reviews |-> reviews[i].strengths])
        /\ CommonIffInHalfOfReviews(qualitative.commonWeaknesses,
                                    [i \in DOMAIN reviews |-> reviews[i].weaknesses])

(***************************************************************************)
(* Claims about the rank_designs tool.                                     *)
(***************************************************************************)
\* The overall score of a candidate under the scores persisted for it, in
\* hundredths.
PersistedOverall(c) ==
    calculateOverallScore(aggregateScores(ScoreResultsFor(c), RankCriteria))

RankedPosition(id) == CHOOSE i \in DOMAIN ranked : ranked[i].designId = id

HigherPersistedScoreFirst ==
    \A i, j \in DOMAIN candidates :
        PersistedOverall(candidates[i]) > PersistedOverall(candidates[j])
            => RankedPosition(candidates[i].designId) < RankedPosition(candidates[j].designId)

\* C22: rank_designs ranks by the aggregated reviewer scores: a design whose
\* overall score under the persisted scores is strictly higher than
\* another's comes before it in the ranking.
C22_RankToolFollowsPersistedScores ==
    rankedBy = "rank_designs" => HigherPersistedScoreFirst

\* What does hold: rankDesigns, given the scores.
C22_HoldsOfRankDesigns ==
    rankedBy = "rankDesigns" => HigherPersistedScoreFirst

(***************************************************************************)
(* Claims about JSON extraction.                                           *)
(***************************************************************************)
\* The three strategies of the specification, in its order: the raw text,
\* the fenced block, the JSON embedded among other text.
RawYields(s) == JsonParses(s)
FencedYields(s) == HasFencedBlock(s) /\ JsonParses(FencedBlock(s))
EmbeddedYields(s) == HasBracketMatch(s) /\ JsonParses(BracketMatch(s))

FirstYield(s) ==
    IF RawYields(s) THEN JsonValue(s)
    ELSE IF FencedYields(s) THEN JsonValue(FencedBlock(s))
    ELSE JsonValue(BracketMatch(s))

ExtractionTriesEveryStrategy ==
    /\ extraction.ok <=> (RawYields(text) \/ FencedYields(text) \/ EmbeddedYields(text))
    /\ extraction.ok => extraction.value = FirstYield(text)
    /\ ~extraction.ok => extraction.preview = Preview(text)

\* C21: extraction tries the raw text, the fenced block and the embedded
\* JSON one after another and fails, with a diagnostic that carries a preview
\* of the text, only if all three fail: it succeeds, with the value of the
\* first strategy that parses, whenever one of them parses.
C21_ExtractionTriesEveryStrategy ==
    extractedBy # "none" => ExtractionTriesEveryStrategy

\* What does hold: extractJSON on a text without fence and without string.
C21_HoldsOfPlainText ==
    (/\ extractedBy = "extractJSON"
     /\ Positions(text, "F") = {}
     /\ Positions(text, "Q") = {})
    => ExtractionTriesEveryStrategy

(***************************************************************************)
(* Claims about the termination of the completion monitor.                 *)
(***************************************************************************)
TerminalOutcomes == {"complete", "timeout", "aborted"}

\* The call is between its entry and its return or throw.
PollingState == fn = "pollForCompletion" /\ pc \in {"while", "sleep"}

TimeoutNow == PollWhile /\ outcome' = "timeout" /\ pc' = "done"
CancelNow == PollWhile /\ outcome' = "aborted" /\ pc' = "done"
BackToLoopHead == PollObserve /\ pc' = "while"

\* From every polling state, whatever the session's status and the stability
\* counter: a poll in progress can end at the loop head, the signal can
\* fire, and at the loop head the ceiling alone decides the timeout and,
\* within the ceiling, the signal alone decides the cancellation.
ExitsOpen ==
    /\ (pc = "sleep") => ENABLED BackToLoopHead
    /\ ~aborted => ENABLED SetAbort
    /\ (pc = "while" /\ ~WithinCeiling(elapsed)) => ENABLED TimeoutNow
    /\ (pc = "while" /\ WithinCeiling(elapsed) /\ aborted) => ENABLED CancelNow

ResultArtifactPath(r) ==
    PathJoin(PathJoin(r.designDir, NameDesigns), OrchArtifactFile(r.model))

Succeeded == { k \in DOMAIN ptask : ptask[k] = "written" }

NeverOverwritten ==
    /\ \A f \in pfiles : f.n = 1
    /\ Cardinality(pfiles) = Cardinality(Succeeded)

\* C25: an artifact file, once written, is not written again in the run:
\* distinct models are persisted to distinct paths, and the run leaves as
\* many artifact files as models succeeded.
C25_ArtifactNeverOverwritten == NeverOverwritten

\* What does hold: of model lists whose names differ in their last segment,
\* and differ there by more than case and special characters, as long as
\* they differ after the slashes are replaced as well.
DistinctFileNames ==
    \A i, j \in DOMAIN models :
        i # j => /\ OrchArtifactFile(models[i]) # OrchArtifactFile(models[j])
                 /\ ToolArtifactFile(models[i]) # ToolArtifactFile(models[j])

C25_HoldsOfDistinctFileNames == DistinctFileNames => NeverOverwritten

OneRunDirectory ==
    /\ \A k \in DOMAIN presults : presults[k].designDir = presults[1].designDir
    /\ resultsPath # <<>> =>
          \A f \in pfiles :
              StartsWith(f.path, presults[1].designDir \o Slash \o NameDesigns \o Slash)

\* C26: the designs one generateDesignsInParallel call returns share one
\* run directory, and results.json is written in the directory that holds
\* every design of the run, whenever the sessions complete.
C26_OneRunDirectory ==
    (pimpl = "orch" /\ ppc \in {"resolved", "saved"}) => OneRunDirectory

\* What does hold: of a run that ends on the day it began.
C26_HoldsWithinOneDay ==
    (pimpl = "orch" /\ ppc \in {"resolved", "saved"} /\ today = 0) => OneRunDirectory

(***************************************************************************)
(* Claims about cancellation.                                              *)
(***************************************************************************)
\* C27: once the signal is set the call never returns success: a call that
\* ended after its signal was set, at whatever moment of the loop it was
\* set, ended with the cancellation error.
C27_NoSuccessAfterSignal ==
    (fn = "pollForCompletion" /\ pc = "done" /\ aborted) => outcome = "aborted"

\* What does hold: a set signal is observed at the loop head.  A call at the
\* loop head with its signal set ends there without another poll, with the
\* cancellation error when the ceiling has not passed and the timeout error
\* when it has; a poll begins only with the signal unset; and success is
\* returned only out of a poll, so a success after the signal is the success
\* of the poll during which the signal was set.
C27_HoldsAtTheLoopHead ==
    [][ /\ (fn = "pollForCompletion" /\ pc = "while" /\ aborted)
            => /\ pc' = "done"
               /\ nPolls' = nPolls
               /\ outcome' = (IF WithinCeiling(elapsed) THEN "aborted" ELSE "timeout")
        /\ (fn = "pollForCompletion" /\ pc = "while" /\ pc' = "sleep") => ~aborted
        /\ (fn = "pollForCompletion" /\ outcome # "complete" /\ outcome' = "complete")
            => pc = "sleep" ]_vars

(***************************************************************************)
(* Claims about the isolation of persisted artifacts.                      *)
(***************************************************************************)
\* A file tool call on a persisted artifact, by a session with no owner
\* bound, that reached the handler of the hook.
ArtifactCallChecked ==
    /\ via # "none"
    /\ isoEnabled
    /\ request.tool \in FileTools
    /\ request.path \in OrchArtifactPaths
    /\ owner = <<>>
    /\ via = "plugin" => request.hasSession

\* C28: every path at which the orchestrator persists a design artifact is
\* a protected path of the registered isolation hook, so that reading or
\* writing it from a session with no owner bound is a violation.
C28_PersistedArtifactsProtected ==
    ArtifactCallChecked => (isDesignPath(request.path) /\ verdict = "violation")

(***************************************************************************)
(* C29.  The two aggregation implementations agree: whichever of them ran, *)
(* the other one, given the same criteria and the same scores, returns the *)
(* same aggregated entries (name, value, weight, variance and comment, in  *)
(* the same order) and the same overall score.                             *)
(***************************************************************************)
ScoresPerReview == [r \in DOMAIN scoreResults |-> scoreResults[r].scores]

ByOrchestrator ==
    LET aggregated == aggregateScores(scoreResults, criteria) IN
    [scores |-> aggregated, overallScore |-> calculateOverallScore(aggregated)]

ByReviews ==
    LET result == aggregateQuantitativeScores(ScoresPerReview, criteria) IN
    [scores |-> result.scores, overallScore |-> result.overallScore]

SameEntries(xs, ys) ==
    /\ Len(xs) = Len(ys)
    /\ \A i \in DOMAIN xs :
          /\ xs[i].name = ys[i].name
          /\ xs[i].value = ys[i].value
          /\ xs[i].weight = ys[i].weight
          /\ xs[i].variance = ys[i].variance
          /\ xs[i].comment = ys[i].comment

C29_AggregatorsAgree ==
    /\ aggBy = "orchestrator" =>
          /\ SameEntries(aggOut.scores, ByReviews.scores)
          /\ aggOut.overallScore = ByReviews.overallScore
    /\ aggBy = "reviews" =>
          /\ SameEntries(aggOut.scores, ByOrchestrator.scores)
          /\ aggOut.overallScore = ByOrchestrator.overallScore

\* The reviews module has aggregated two criteria, the first with the
\* default weight and no score, the second with weight 2 and two reviewers
\* who disagree.
C29_Witness ==
    /\ aggBy = "reviews"
    /\ Len(criteria) = 2
    /\ criteria[1].weight = 0 /\ criteria[2].weight = 2
    /\ aggOut.scores[1].comment = NoScoresProvided
    /\ Len(ReviewsCriterionScores(ScoresPerReview, criteria[2].name)) = 2
    /\ aggOut.scores[2].variance > 0
    /\ aggOut.overallScore > 0

(***************************************************************************)
(* C30.  In every result of aggregateQuantitativeScores the consensus      *)
(* label agrees with the reported variance, which is rounded to            *)
(* hundredths: high only if it is below 0.5, medium only if it is at least *)
(* 0.5 and below 1.5, low only if it is at least 1.5.                      *)
(***************************************************************************)
C30_ConsensusMatchesReportedVariance ==
    aggBy = "reviews" =>
        /\ aggOut.consensus = "high" => aggOut.variance < 50
        /\ aggOut.consensus = "medium" => 50 <= aggOut.variance /\ aggOut.variance < 150
        /\ aggOut.consensus = "low" => aggOut.variance >= 150

\* The label never lies on the far side of a threshold: the reported
\* variance is at most the threshold itself.
C30_HoldsUpToTheThreshold ==
    aggBy = "reviews" =>
        /\ aggOut.consensus = "high" => aggOut.variance <= 50
        /\ aggOut.consensus = "medium" => 50 <= aggOut.variance /\ aggOut.variance <= 150
        /\ aggOut.consensus = "low" => aggOut.variance >= 150

====
